---------------------------- MODULE Spec2Model ----------------------------
(***************************************************************************)
(* The OWP world registry (programs/owp-registry) as a state machine over  *)
(* the host ledger: accounts with a balance, an owner and a byte buffer,   *)
(* the host clock, and the three instructions RegisterWorld, UpdateWorld   *)
(* and DelistWorld.  Account data is kept as the bytes the Borsh codec     *)
(* writes, so that every check of the handlers reads what the code reads.  *)
(***************************************************************************)
EXTENDS Integers, Sequences, FiniteSets, TLC

VARIABLES accounts, clock, last, delistedBy, pending, outcome,
          record, wire, readback, cell, fixed, wrote, inbound, got,
          manifest, conn, outbound, reply, auth, request, response

\* A fixed-width string field on its own and the last operation on it.
strings == <<cell, fixed>>

\* A framed byte stream: the message its writer was given, the bytes not
\* yet read, and what its reader returned.
framing == <<wrote, inbound, got>>

\* A game-server connection: the served world's manifest in the store, the
\* connection handler's position, the bytes the server wrote, and what the
\* client read from them.
game == <<manifest, conn, outbound, reply>>

\* The admin API: its auth mode, the request in hand and the response to it.
admin == <<auth, request, response>>

\* What lives outside the ledger and the record codec.
offchain == <<strings, framing, game, admin>>

vars == <<accounts, clock, last, delistedBy, pending, outcome,
          record, wire, readback, offchain>>

\* What a client holds outside the ledger: a WorldEntry, its encoding and
\* the result of reading the encoding back.
codec == <<record, wire, readback>>

(***************************************************************************)
(* Bounds of the model.                                                    *)
(***************************************************************************)
\* The largest balance an account can hold: the model's stand-in for u64::MAX.
MaxLamports == 5
\* The host's rent.minimum_balance(WorldEntry::LEN).
RentMinimum == 2
\* The host clock counts slots 0..MaxSlot.
MaxSlot == 1

(***************************************************************************)
(* Program constants.                                                      *)
(***************************************************************************)
NAME_MAX_LEN == 32
ENDPOINT_MAX_LEN == 64
METADATA_URI_MAX_LEN == 128
NAME_LEN == 32
ENDPOINT_LEN == 64
METADATA_URI_LEN == 128
WORLD_ENTRY_VERSION == 1
WorldEntry_LEN == 358
\* b"OWPREG01"
WORLD_ENTRY_MAGIC == <<79, 87, 80, 82, 69, 71, 48, 49>>
\* Widths of the fixed-size fields of WorldEntry.
MAGIC_LEN == 8
WORLD_ID_LEN == 16
PUBKEY_LEN == 32

(***************************************************************************)
(* Keys.  A Pubkey is modelled by one byte value k standing for the key    *)
(* whose 32 bytes are all k (as the crate's test writes [9u8; 32]).        *)
(***************************************************************************)
\* solana_program::system_program::id(): the all-zero key.
SYSTEM_PROGRAM_ID == 0
\* The registry's program id.
PROGRAM_ID == 50
\* Some other program, passed where the system program is expected.
OTHER_PROGRAM_ID == 51
KeyA == 1
KeyB == 2
Users == {KeyA, KeyB}
World1 == 7
World2 == 9

Zeros(n) == [i \in 1..n |-> 0]
Rep(b, n) == [i \in 1..n |-> b]
\* Pubkey::to_bytes
to_bytes(k) == Rep(k, PUBKEY_LEN)
WorldIdBytes(w) == Rep(w, WORLD_ID_LEN)

(***************************************************************************)
(* Option<T>: <<>> is None, <<v>> is Some(v).                              *)
(***************************************************************************)
None == <<>>
Some(v) == <<v>>
unwrap_or(opt, d) == IF opt = <<>> THEN d ELSE opt[1]

(***************************************************************************)
(* Borsh integers: little endian.                                          *)
(***************************************************************************)
RECURSIVE ToLE(_, _)
ToLE(v, n) == IF n = 0 THEN <<>> ELSE <<v % 256>> \o ToLE(v \div 256, n - 1)
\* A variant that writes the high byte first.
U16BE(v) == <<v \div 256, v % 256>>
U16LE(v) == ToLE(v, 2)
U64LE(v) == ToLE(v, 8)
RECURSIVE FromLE(_)
FromLE(bytes) ==
    IF bytes = <<>> THEN 0 ELSE bytes[1] + 256 * FromLE(Tail(bytes))

(***************************************************************************)
(* owp-registry-types: write_fixed_string, read_fixed_string and the       *)
(* derived Borsh codec of WorldEntry.                                      *)
(***************************************************************************)
\* A variant that copies the string without clearing the field first.
write_fixed_string_no_clear(dst, src) ==
    IF Len(src) > Len(dst)
    THEN [ok |-> FALSE, dst |-> dst]
    ELSE [ok |-> TRUE, dst |-> src \o SubSeq(dst, Len(src) + 1, Len(dst))]

\* Result<(), ()> with the destination: ok = FALSE leaves dst as it was.
write_fixed_string(dst, src) ==
    IF Len(src) > Len(dst)
    THEN [ok |-> FALSE, dst |-> dst]
    ELSE [ok |-> TRUE, dst |-> src \o Zeros(Len(dst) - Len(src))]

\* Continuation bytes of a UTF-8 sequence.
Continuation(b) == b >= 128 /\ b <= 191

\* How many continuation bytes follow a first byte; -1 for a byte that
\* cannot start a character.
Following(b) ==
    IF b < 128 THEN 0
    ELSE IF b >= 194 /\ b <= 223 THEN 1
    ELSE IF b >= 224 /\ b <= 239 THEN 2
    ELSE IF b >= 240 /\ b <= 244 THEN 3
    ELSE -1

\* core::str::from_utf8: one to four bytes to a character, no overlong
\* form, no surrogate, nothing above U+10FFFF.  Every byte either starts a
\* character that is complete, or continues one started up to three bytes
\* before it.
valid_utf8(bytes) ==
    \A i \in 1..Len(bytes) :
        LET b == bytes[i] IN
        IF Continuation(b)
        THEN \E j \in 1..3 :
                /\ i - j >= 1
                /\ Following(bytes[i - j]) >= j
                /\ \A k \in 1..(j - 1) : Continuation(bytes[i - k])
        ELSE /\ Following(b) >= 0
             /\ i + Following(b) <= Len(bytes)
             /\ \A k \in 1..Following(b) : Continuation(bytes[i + k])
             /\ (b = 224 => bytes[i + 1] >= 160)
             /\ (b = 237 => bytes[i + 1] <= 159)
             /\ (b = 240 => bytes[i + 1] >= 144)
             /\ (b = 244 => bytes[i + 1] <= 143)

\* The loop of read_fixed_string: the bytes before the first zero byte.
RECURSIVE until_zero(_)
until_zero(bytes) ==
    IF bytes = <<>> \/ bytes[1] = 0 THEN <<>>
    ELSE <<bytes[1]>> \o until_zero(Tail(bytes))

\* U+FFFD, the replacement character, in UTF-8.
REPLACEMENT == <<239, 191, 189>>

\* The second byte a first byte admits.
second_byte(b, c) ==
    IF b = 224 THEN c >= 160 /\ c <= 191
    ELSE IF b = 237 THEN c >= 128 /\ c <= 159
    ELSE IF b = 240 THEN c >= 144 /\ c <= 191
    ELSE IF b = 244 THEN c >= 128 /\ c <= 143
    ELSE Continuation(c)

\* The chunk at the head of a non-empty byte string: a whole character, or
\* the longest run of bytes that starts one and then breaks off.
next_chunk(bytes) ==
    LET get(i) == IF i <= Len(bytes) THEN bytes[i] ELSE 0
        w == Following(bytes[1])
    IN
    IF w = 0 THEN [valid |-> TRUE, len |-> 1]
    ELSE IF w = -1 \/ ~second_byte(bytes[1], get(2)) THEN [valid |-> FALSE, len |-> 1]
    ELSE IF w = 1 THEN [valid |-> TRUE, len |-> 2]
    ELSE IF ~Continuation(get(3)) THEN [valid |-> FALSE, len |-> 2]
    ELSE IF w = 2 THEN [valid |-> TRUE, len |-> 3]
    ELSE IF ~Continuation(get(4)) THEN [valid |-> FALSE, len |-> 3]
    ELSE [valid |-> TRUE, len |-> 4]

\* Every character kept, every broken chunk replaced by U+FFFD.
RECURSIVE replace_invalid(_)
replace_invalid(bytes) ==
    IF bytes = <<>> THEN <<>>
    ELSE LET c == next_chunk(bytes) IN
         (IF c.valid THEN SubSeq(bytes, 1, c.len) ELSE REPLACEMENT)
         \o replace_invalid(SubSeq(bytes, c.len + 1, Len(bytes)))

\* String::from_utf8_lossy(..).to_string(): valid UTF-8 comes back as it is.
from_utf8_lossy(bytes) ==
    IF valid_utf8(bytes) THEN bytes ELSE replace_invalid(bytes)

read_fixed_string(bytes) == from_utf8_lossy(until_zero(bytes))

\* A variant that leaves out the bump byte.
SerializeNoBump(e) ==
    e.magic \o <<e.version>> \o e.world_id \o e.authority
    \o e.name \o e.endpoint \o ToLE(e.game_port, 2) \o ToLE(e.asset_port, 2)
    \o e.token_mint \o e.dbc_pool \o e.metadata_uri \o ToLE(e.last_update_slot, 8)

\* BorshSerialize for WorldEntry: the fields in declaration order.
Serialize(e) ==
    e.magic \o <<e.version>> \o <<e.bump>> \o e.world_id \o e.authority
    \o e.name \o e.endpoint \o U16LE(e.game_port) \o U16LE(e.asset_port)
    \o e.token_mint \o e.dbc_pool \o e.metadata_uri \o U64LE(e.last_update_slot)

\* The number of bytes the derived reader consumes.
EncodedLen ==
    MAGIC_LEN + 1 + 1 + WORLD_ID_LEN + PUBKEY_LEN + NAME_LEN + ENDPOINT_LEN
    + 2 + 2 + PUBKEY_LEN + PUBKEY_LEN + METADATA_URI_LEN + 8

Field(data, off, n) == SubSeq(data, off + 1, off + n)

\* BorshDeserialize::try_from_slice: too few bytes fail, bytes left over fail.
try_from_slice(data) ==
    IF Len(data) # EncodedLen
    THEN [ok |-> FALSE]
    ELSE [ok |-> TRUE,
          entry |->
            [magic |-> Field(data, 0, 8),
             version |-> data[9],
             bump |-> data[10],
             world_id |-> Field(data, 10, 16),
             authority |-> Field(data, 26, 32),
             name |-> Field(data, 58, 32),
             endpoint |-> Field(data, 90, 64),
             game_port |-> FromLE(Field(data, 154, 2)),
             asset_port |-> FromLE(Field(data, 156, 2)),
             token_mint |-> Field(data, 158, 32),
             dbc_pool |-> Field(data, 190, 32),
             metadata_uri |-> Field(data, 222, 128),
             last_update_slot |-> FromLE(Field(data, 350, 8))]]

\* entry.serialize(&mut &mut data[..]): writes over the front of the buffer,
\* and fails when the buffer is shorter than the encoding.
serialize_into(data, e) ==
    LET bytes == Serialize(e) IN
    IF Len(data) < Len(bytes)
    THEN [ok |-> FALSE, data |-> data]
    ELSE [ok |-> TRUE,
          data |-> bytes \o SubSeq(data, Len(bytes) + 1, Len(data))]

(***************************************************************************)
(* The Address Deriver.  Pubkey::find_program_address hashes the seeds     *)
(* with the program id; the model keeps what the registry relies on: the   *)
(* result is a function of the world id, and distinct ids give distinct    *)
(* addresses, none of them a user key.                                     *)
(***************************************************************************)
find_program_address(world_id, program_id) ==
    [key |-> 100 + world_id[1] + (program_id - PROGRAM_ID),
     bump |-> 255 - (world_id[1] % 3)]

Pda(w) == find_program_address(WorldIdBytes(w), PROGRAM_ID).key

Keys == Users \cup {Pda(World1), Pda(World2)}

(***************************************************************************)
(* The host ledger.  Every address has an account; one that was never      *)
(* funded has no balance, no data and belongs to the system program.       *)
(***************************************************************************)
EmptyAccount == [lamports |-> 0, owner |-> SYSTEM_PROGRAM_ID, data |-> <<>>]

\* A variant that takes every account for a signer.
is_signer_unchecked(info) == TRUE

\* AccountInfo::is_signer: the account signed the transaction.
is_signer(info) == info.is_signer

\* What a handler returns: the result code and the accounts as it left them
\* when it returned (the host commits them only when res = "Ok").
Ret(res, led) == [res |-> res, led |-> led]

\* system_instruction::create_account through invoke_signed.  The host moves
\* `lamports` from the payer, allocates `space` zero bytes and assigns the
\* owner; it fails when the payer cannot fund the account.  The registry's
\* own balance test is the only in-use test made before it.
create_account(led, from, to, lamports, space, owner) ==
    IF led[from].lamports < lamports
    THEN Ret("InsufficientFunds", led)
    ELSE LET debited == [led EXCEPT ![from].lamports = @ - lamports] IN
         Ret("Ok", [debited EXCEPT ![to] =
                        [lamports |-> debited[to].lamports + lamports,
                         owner |-> owner,
                         data |-> Zeros(space)]])

(***************************************************************************)
(* Processor::register_world.                                              *)
(***************************************************************************)
\* A variant that forgets the endpoint and the metadata_uri.
strings_within_caps_name_only(name, endpoint, metadata_uri) ==
    Len(name) <= NAME_MAX_LEN

\* Lines 86-88: every string within its cap.
strings_within_caps(name, endpoint, metadata_uri) ==
    /\ Len(name) <= NAME_MAX_LEN
    /\ Len(endpoint) <= ENDPOINT_MAX_LEN
    /\ Len(metadata_uri) <= METADATA_URI_MAX_LEN

\* A variant that accepts whatever account the caller supplies.
pda_unchecked(expected_pda, key) == TRUE

\* Line 108 (and 198, 277): the supplied account is the derived address.
pda_matches(expected_pda, key) == expected_pda = key

\* A variant that never finds the slot in use.
never_initialized(account) == FALSE

\* A variant that decides from the data buffer instead of the balance.
initialized_by_data(account) == Len(account.data) > 0

\* Line 113: the slot is in use when it holds any balance.
already_initialized(account) == account.lamports > 0

\* A variant that records the payer as the authority.
new_entry_payer_owns(ix, bump, payer_key, authority_key, slot) ==
    [magic |-> WORLD_ENTRY_MAGIC,
     version |-> WORLD_ENTRY_VERSION,
     bump |-> bump,
     world_id |-> ix.world_id,
     authority |-> to_bytes(payer_key),
     name |-> Zeros(NAME_LEN),
     endpoint |-> Zeros(ENDPOINT_LEN),
     game_port |-> ix.game_port,
     asset_port |-> unwrap_or(ix.asset_port, 0),
     token_mint |-> unwrap_or(ix.token_mint, Zeros(PUBKEY_LEN)),
     dbc_pool |-> unwrap_or(ix.dbc_pool, Zeros(PUBKEY_LEN)),
     metadata_uri |-> Zeros(METADATA_URI_LEN),
     last_update_slot |-> slot]

\* A variant that does not record the world_id.
new_entry_no_world_id(ix, bump, payer_key, authority_key, slot) ==
    [magic |-> WORLD_ENTRY_MAGIC,
     version |-> WORLD_ENTRY_VERSION,
     bump |-> bump,
     world_id |-> Zeros(WORLD_ID_LEN),
     authority |-> to_bytes(authority_key),
     name |-> Zeros(NAME_LEN),
     endpoint |-> Zeros(ENDPOINT_LEN),
     game_port |-> ix.game_port,
     asset_port |-> unwrap_or(ix.asset_port, 0),
     token_mint |-> unwrap_or(ix.token_mint, Zeros(PUBKEY_LEN)),
     dbc_pool |-> unwrap_or(ix.dbc_pool, Zeros(PUBKEY_LEN)),
     metadata_uri |-> Zeros(METADATA_URI_LEN),
     last_update_slot |-> slot]

\* A variant that stamps every fresh record with slot 0.
new_entry_slot_zero(ix, bump, payer_key, authority_key, slot) ==
    [magic |-> WORLD_ENTRY_MAGIC,
     version |-> WORLD_ENTRY_VERSION,
     bump |-> bump,
     world_id |-> ix.world_id,
     authority |-> to_bytes(authority_key),
     name |-> Zeros(NAME_LEN),
     endpoint |-> Zeros(ENDPOINT_LEN),
     game_port |-> ix.game_port,
     asset_port |-> unwrap_or(ix.asset_port, 0),
     token_mint |-> unwrap_or(ix.token_mint, Zeros(PUBKEY_LEN)),
     dbc_pool |-> unwrap_or(ix.dbc_pool, Zeros(PUBKEY_LEN)),
     metadata_uri |-> Zeros(METADATA_URI_LEN),
     last_update_slot |-> 0]

\* Lines 133-147: the fresh record, before its strings are written.
new_entry(ix, bump, payer_key, authority_key, slot) ==
    [magic |-> WORLD_ENTRY_MAGIC,
     version |-> WORLD_ENTRY_VERSION,
     bump |-> bump,
     world_id |-> ix.world_id,
     authority |-> to_bytes(authority_key),
     name |-> Zeros(NAME_LEN),
     endpoint |-> Zeros(ENDPOINT_LEN),
     game_port |-> ix.game_port,
     asset_port |-> unwrap_or(ix.asset_port, 0),
     token_mint |-> unwrap_or(ix.token_mint, Zeros(PUBKEY_LEN)),
     dbc_pool |-> unwrap_or(ix.dbc_pool, Zeros(PUBKEY_LEN)),
     metadata_uri |-> Zeros(METADATA_URI_LEN),
     last_update_slot |-> slot]

register_world(program_id, led, metas, ix, slot) ==
    IF ~strings_within_caps(ix.name, ix.endpoint, ix.metadata_uri)
    THEN Ret("StringTooLong", led)
    ELSE IF Len(metas) < 4 THEN Ret("NotEnoughAccountKeys", led)
    ELSE
    LET payer == metas[1]
        world_entry_account == metas[2]
        authority == metas[3]
        system_program == metas[4]
        derived == find_program_address(ix.world_id, program_id)
    IN
    IF ~is_signer(payer) \/ ~is_signer(authority)
    THEN Ret("MissingRequiredSignature", led)
    ELSE IF system_program.key # SYSTEM_PROGRAM_ID
    THEN Ret("IncorrectProgramId", led)
    ELSE IF ~pda_matches(derived.key, world_entry_account.key)
    THEN Ret("InvalidPda", led)
    ELSE IF already_initialized(led[world_entry_account.key])
    THEN Ret("AlreadyInitialized", led)
    ELSE
    LET created == create_account(led, payer.key, world_entry_account.key,
                                  RentMinimum, WorldEntry_LEN, program_id)
    IN
    IF created.res # "Ok" THEN created
    ELSE
    LET entry0 == new_entry(ix, derived.bump, payer.key, authority.key, slot)
        n == write_fixed_string(entry0.name, ix.name)
        e == write_fixed_string(entry0.endpoint, ix.endpoint)
        m == write_fixed_string(entry0.metadata_uri, ix.metadata_uri)
        entry == [entry0 EXCEPT !.name = n.dst, !.endpoint = e.dst,
                                !.metadata_uri = m.dst]
        written == serialize_into(created.led[world_entry_account.key].data, entry)
    IN
    IF ~n.ok \/ ~e.ok \/ ~m.ok THEN Ret("StringTooLong", created.led)
    ELSE IF ~written.ok THEN Ret("InvalidAccountData", created.led)
    ELSE Ret("Ok", [created.led EXCEPT ![world_entry_account.key].data = written.data])

(***************************************************************************)
(* Processor::update_world.                                                *)
(***************************************************************************)
\* A variant that trusts whatever decodes.
well_formed_unchecked(entry) == TRUE

\* Lines 192 and 268: the record carries the expected magic and version.
well_formed(entry) ==
    entry.magic = WORLD_ENTRY_MAGIC /\ entry.version = WORLD_ENTRY_VERSION

\* A variant that accepts any signer.
authority_any_signer(entry, authority_key) == TRUE

\* Lines 201 and 271: the signer is the stored authority.
authority_matches(entry, authority_key) == entry.authority = to_bytes(authority_key)

\* A variant that takes an omitted endpoint for an empty one.
apply_patch_clears_endpoint(entry, ix, slot) ==
    IF ix.name # None /\ Len(ix.name[1]) > NAME_MAX_LEN
    THEN [ok |-> FALSE, entry |-> entry]
    ELSE [ok |-> TRUE,
          entry |->
            [entry EXCEPT
               !.name = IF ix.name = None THEN @
                        ELSE write_fixed_string(@, ix.name[1]).dst,
               !.endpoint = Zeros(ENDPOINT_LEN),
               !.last_update_slot = slot]]

\* A variant that takes an explicit clear for no change.
apply_patch_clear_ignored(entry, ix, slot) ==
    [ok |-> TRUE,
     entry |->
       [entry EXCEPT
          !.asset_port = IF ix.asset_port \in {None, Some(None)} THEN @
                         ELSE ix.asset_port[1][1],
          !.token_mint = IF ix.token_mint \in {None, Some(None)} THEN @
                         ELSE ix.token_mint[1][1],
          !.dbc_pool = IF ix.dbc_pool \in {None, Some(None)} THEN @
                       ELSE ix.dbc_pool[1][1],
          !.last_update_slot = slot]]

\* A variant that leaves last_update_slot as it was.
apply_patch_keeps_slot(entry, ix, slot) ==
    [ok |-> TRUE,
     entry |->
       [entry EXCEPT
          !.game_port = IF ix.game_port = None THEN @ ELSE ix.game_port[1],
          !.asset_port = IF ix.asset_port = None THEN @
                         ELSE unwrap_or(ix.asset_port[1], 0),
          !.token_mint = IF ix.token_mint = None THEN @
                         ELSE unwrap_or(ix.token_mint[1], Zeros(PUBKEY_LEN)),
          !.dbc_pool = IF ix.dbc_pool = None THEN @
                       ELSE unwrap_or(ix.dbc_pool[1], Zeros(PUBKEY_LEN))]]

\* A variant that writes the record back with its bump cleared.
apply_patch_clears_bump(entry, ix, slot) ==
    LET n == IF ix.name = None THEN [ok |-> TRUE, dst |-> entry.name]
             ELSE IF Len(ix.name[1]) > NAME_MAX_LEN
                  THEN [ok |-> FALSE, dst |-> entry.name]
                  ELSE write_fixed_string(entry.name, ix.name[1])
        e == IF ix.endpoint = None THEN [ok |-> TRUE, dst |-> entry.endpoint]
             ELSE IF Len(ix.endpoint[1]) > ENDPOINT_MAX_LEN
                  THEN [ok |-> FALSE, dst |-> entry.endpoint]
                  ELSE write_fixed_string(entry.endpoint, ix.endpoint[1])
        m == IF ix.metadata_uri = None THEN [ok |-> TRUE, dst |-> entry.metadata_uri]
             ELSE IF Len(ix.metadata_uri[1]) > METADATA_URI_MAX_LEN
                  THEN [ok |-> FALSE, dst |-> entry.metadata_uri]
                  ELSE write_fixed_string(entry.metadata_uri, ix.metadata_uri[1])
    IN
    IF ~n.ok \/ ~e.ok \/ ~m.ok
    THEN [ok |-> FALSE, entry |-> entry]
    ELSE [ok |-> TRUE,
          entry |->
            [entry EXCEPT
               !.name = n.dst,
               !.endpoint = e.dst,
               !.metadata_uri = m.dst,
               !.game_port = IF ix.game_port = None THEN @ ELSE ix.game_port[1],
               !.asset_port = IF ix.asset_port = None THEN @
                              ELSE unwrap_or(ix.asset_port[1], 0),
               !.token_mint = IF ix.token_mint = None THEN @
                              ELSE unwrap_or(ix.token_mint[1], Zeros(PUBKEY_LEN)),
               !.dbc_pool = IF ix.dbc_pool = None THEN @
                            ELSE unwrap_or(ix.dbc_pool[1], Zeros(PUBKEY_LEN)),
               !.bump = 0,
               !.last_update_slot = slot]]

\* Lines 205-238: the patch, field by field; a string over its cap stops it.
apply_patch(entry, ix, slot) ==
    LET n == IF ix.name = None THEN [ok |-> TRUE, dst |-> entry.name]
             ELSE IF Len(ix.name[1]) > NAME_MAX_LEN
                  THEN [ok |-> FALSE, dst |-> entry.name]
                  ELSE write_fixed_string(entry.name, ix.name[1])
        e == IF ix.endpoint = None THEN [ok |-> TRUE, dst |-> entry.endpoint]
             ELSE IF Len(ix.endpoint[1]) > ENDPOINT_MAX_LEN
                  THEN [ok |-> FALSE, dst |-> entry.endpoint]
                  ELSE write_fixed_string(entry.endpoint, ix.endpoint[1])
        m == IF ix.metadata_uri = None THEN [ok |-> TRUE, dst |-> entry.metadata_uri]
             ELSE IF Len(ix.metadata_uri[1]) > METADATA_URI_MAX_LEN
                  THEN [ok |-> FALSE, dst |-> entry.metadata_uri]
                  ELSE write_fixed_string(entry.metadata_uri, ix.metadata_uri[1])
    IN
    IF ~n.ok \/ ~e.ok \/ ~m.ok
    THEN [ok |-> FALSE, entry |-> entry]
    ELSE [ok |-> TRUE,
          entry |->
            [entry EXCEPT
               !.name = n.dst,
               !.endpoint = e.dst,
               !.metadata_uri = m.dst,
               !.game_port = IF ix.game_port = None THEN @ ELSE ix.game_port[1],
               !.asset_port = IF ix.asset_port = None THEN @
                              ELSE unwrap_or(ix.asset_port[1], 0),
               !.token_mint = IF ix.token_mint = None THEN @
                              ELSE unwrap_or(ix.token_mint[1], Zeros(PUBKEY_LEN)),
               !.dbc_pool = IF ix.dbc_pool = None THEN @
                            ELSE unwrap_or(ix.dbc_pool[1], Zeros(PUBKEY_LEN)),
               !.last_update_slot = slot]]

update_world(program_id, led, metas, ix, slot) ==
    IF Len(metas) < 2 THEN Ret("NotEnoughAccountKeys", led)
    ELSE
    LET world_entry_account == metas[1]
        authority == metas[2]
        account == led[world_entry_account.key]
        decoded == try_from_slice(account.data)
    IN
    IF ~is_signer(authority) THEN Ret("MissingRequiredSignature", led)
    ELSE IF account.owner # program_id THEN Ret("IncorrectProgramId", led)
    ELSE IF ~decoded.ok THEN Ret("InvalidAccountData", led)
    ELSE IF ~well_formed(decoded.entry) THEN Ret("InvalidAccountData", led)
    ELSE IF ~pda_matches(find_program_address(decoded.entry.world_id, program_id).key,
                         world_entry_account.key)
    THEN Ret("InvalidPda", led)
    ELSE IF ~authority_matches(decoded.entry, authority.key)
    THEN Ret("Unauthorized", led)
    ELSE
    LET patched == apply_patch(decoded.entry, ix, slot)
        written == serialize_into(account.data, patched.entry)
    IN
    IF ~patched.ok THEN Ret("StringTooLong", led)
    ELSE IF ~written.ok THEN Ret("InvalidAccountData", led)
    ELSE Ret("Ok", [led EXCEPT ![world_entry_account.key].data = written.data])

(***************************************************************************)
(* Processor::delist_world.                                                *)
(***************************************************************************)
\* A variant that zeroes the data before it tests the addition.
drain_zero_first(led, entry_key, authority_key) ==
    LET lamports == led[entry_key].lamports
        sum == led[authority_key].lamports + lamports
        zeroed == [led EXCEPT ![entry_key].data = Zeros(Len(@))]
    IN
    IF sum > MaxLamports THEN Ret("ArithmeticOverflow", zeroed)
    ELSE
    LET credited == [zeroed EXCEPT ![authority_key].lamports = sum] IN
    Ret("Ok", [credited EXCEPT ![entry_key].lamports = 0])

\* A variant that drains the balance and leaves the data.
drain_keeps_data(led, entry_key, authority_key) ==
    LET lamports == led[entry_key].lamports
        sum == led[authority_key].lamports + lamports
    IN
    IF sum > MaxLamports THEN Ret("ArithmeticOverflow", led)
    ELSE
    LET credited == [led EXCEPT ![authority_key].lamports = sum] IN
    Ret("Ok", [credited EXCEPT ![entry_key].lamports = 0])

\* A variant that credits the authority and leaves the slot's balance.
drain_keeps_balance(led, entry_key, authority_key) ==
    LET lamports == led[entry_key].lamports
        sum == led[authority_key].lamports + lamports
    IN
    IF sum > MaxLamports THEN Ret("ArithmeticOverflow", led)
    ELSE
    LET credited == [led EXCEPT ![authority_key].lamports = sum] IN
    Ret("Ok", [credited EXCEPT ![entry_key].data = Zeros(Len(@))])

\* Lines 281-292: drain the balance to the authority, then zero the data.
drain_and_zero(led, entry_key, authority_key) ==
    LET lamports == led[entry_key].lamports
        sum == led[authority_key].lamports + lamports
    IN
    IF sum > MaxLamports THEN Ret("ArithmeticOverflow", led)
    ELSE
    LET credited == [led EXCEPT ![authority_key].lamports = sum]
        drained == [credited EXCEPT ![entry_key].lamports = 0]
    IN
    Ret("Ok", [drained EXCEPT ![entry_key].data = Zeros(Len(@))])

delist_world(program_id, led, metas) ==
    IF Len(metas) < 2 THEN Ret("NotEnoughAccountKeys", led)
    ELSE
    LET world_entry_account == metas[1]
        authority == metas[2]
        account == led[world_entry_account.key]
        decoded == try_from_slice(account.data)
    IN
    IF ~is_signer(authority) THEN Ret("MissingRequiredSignature", led)
    ELSE IF account.owner # program_id THEN Ret("IncorrectProgramId", led)
    ELSE IF ~decoded.ok THEN Ret("InvalidAccountData", led)
    ELSE IF ~well_formed(decoded.entry) THEN Ret("InvalidAccountData", led)
    ELSE IF ~authority_matches(decoded.entry, authority.key)
    THEN Ret("Unauthorized", led)
    ELSE IF ~pda_matches(find_program_address(decoded.entry.world_id, program_id).key,
                         world_entry_account.key)
    THEN Ret("InvalidPda", led)
    ELSE drain_and_zero(led, world_entry_account.key, authority.key)

\* Processor::process: dispatch on the decoded instruction.
process(program_id, led, call, slot) ==
    CASE call.op = "Register" -> register_world(program_id, led, call.metas, call.ix, slot)
      [] call.op = "Update" -> update_world(program_id, led, call.metas, call.ix, slot)
      [] call.op = "Delist" -> delist_world(program_id, led, call.metas)

(***************************************************************************)
(* The calls the clients make.  A call names its accounts in the order     *)
(* the handler reads them, each with its signer flag, and carries the      *)
(* decoded instruction.                                                    *)
(***************************************************************************)
Meta(k, s) == [key |-> k, is_signer |-> s]

RegisterMetas(payer, entry, authority) ==
    <<Meta(payer, TRUE), Meta(entry, FALSE), Meta(authority, TRUE),
      Meta(SYSTEM_PROGRAM_ID, FALSE)>>

EntryMetas(entry, authority) == <<Meta(entry, FALSE), Meta(authority, TRUE)>>

RegisterCall(metas, ix) == [op |-> "Register", metas |-> metas, ix |-> ix]
UpdateCall(metas, ix) == [op |-> "Update", metas |-> metas, ix |-> ix]
DelistCall(metas) == [op |-> "Delist", metas |-> metas, ix |-> <<>>]

\* Scenario A of the design: no optional field, empty metadata_uri.
ScenarioA(w) ==
    [world_id |-> WorldIdBytes(w), name |-> <<65, 112>>, endpoint |-> <<49, 50>>,
     game_port |-> 7777, asset_port |-> None, token_mint |-> None,
     dbc_pool |-> None, metadata_uri |-> <<>>]

\* Every optional field present, the name exactly at its cap.
FullRegister(w) ==
    [world_id |-> WorldIdBytes(w), name |-> Rep(110, NAME_MAX_LEN),
     endpoint |-> <<51>>, game_port |-> 7778, asset_port |-> Some(8080),
     token_mint |-> Some(Rep(3, PUBKEY_LEN)), dbc_pool |-> Some(Rep(4, PUBKEY_LEN)),
     metadata_uri |-> <<117>>]

LongNameRegister(w) == [ScenarioA(w) EXCEPT !.name = Rep(110, NAME_MAX_LEN + 1)]
LongEndpointRegister(w) == [ScenarioA(w) EXCEPT !.endpoint = Rep(101, ENDPOINT_MAX_LEN + 1)]
LongUriRegister(w) == [ScenarioA(w) EXCEPT !.metadata_uri = Rep(117, METADATA_URI_MAX_LEN + 1)]

RegisterCalls ==
    {RegisterCall(RegisterMetas(p, Pda(World1), a), ix) :
        p \in Users, a \in Users, ix \in {ScenarioA(World1), FullRegister(World1)}}
    \cup {RegisterCall(RegisterMetas(p, Pda(World2), KeyB), ScenarioA(World2)) : p \in Users}
    \cup {RegisterCall(RegisterMetas(KeyA, Pda(World1), a), ix) :
        a \in Users,
        ix \in {LongNameRegister(World1), LongEndpointRegister(World1),
                LongUriRegister(World1)}}
    \* the supplied account is not the address derived from world_id
    \cup {RegisterCall(RegisterMetas(KeyA, k, KeyA), ScenarioA(World1)) :
        k \in {Pda(World2), KeyB}}
    \cup {RegisterCall(RegisterMetas(KeyA, Pda(World2), KeyA), LongNameRegister(World1))}
    \* a missing signature
    \cup {RegisterCall(<<Meta(KeyA, ps), Meta(k, FALSE), Meta(KeyB, as),
                         Meta(SYSTEM_PROGRAM_ID, FALSE)>>, ScenarioA(World1)) :
        ps \in BOOLEAN, as \in BOOLEAN, k \in {Pda(World1), Pda(World2)}}
    \* a missing signature and a name over its cap
    \cup {RegisterCall(<<Meta(KeyA, FALSE), Meta(Pda(World1), FALSE), Meta(KeyB, TRUE),
                         Meta(SYSTEM_PROGRAM_ID, FALSE)>>, LongNameRegister(World1))}
    \* not the system program, and too few accounts
    \cup {RegisterCall(<<Meta(KeyA, TRUE), Meta(Pda(World1), FALSE), Meta(KeyA, TRUE),
                         Meta(OTHER_PROGRAM_ID, FALSE)>>, ScenarioA(World1)),
          RegisterCall(<<Meta(KeyA, TRUE), Meta(Pda(World1), FALSE), Meta(KeyA, TRUE)>>,
                       ScenarioA(World1))}

EmptyPatch ==
    [name |-> None, endpoint |-> None, game_port |-> None, asset_port |-> None,
     token_mint |-> None, dbc_pool |-> None, metadata_uri |-> None]
\* Scenario B of the design: only the name.
NameOnlyPatch == [EmptyPatch EXCEPT !.name = Some(<<78, 101, 119>>)]
LongNamePatch == [EmptyPatch EXCEPT !.name = Some(Rep(110, NAME_MAX_LEN + 1))]
LongEndpointPatch ==
    [NameOnlyPatch EXCEPT !.endpoint = Some(Rep(101, ENDPOINT_MAX_LEN + 1))]
LongUriPatch ==
    [EmptyPatch EXCEPT !.metadata_uri = Some(Rep(117, METADATA_URI_MAX_LEN + 1)),
                       !.game_port = Some(7779)]

UpdateCalls ==
    {UpdateCall(EntryMetas(Pda(World1), a), ix) :
        a \in Users,
        ix \in {EmptyPatch, NameOnlyPatch, LongNamePatch, LongEndpointPatch, LongUriPatch}}
    \cup {UpdateCall(EntryMetas(Pda(World2), a), ix) :
        a \in Users, ix \in {EmptyPatch, LongNamePatch}}
    \cup {UpdateCall(<<Meta(Pda(World1), FALSE), Meta(a, FALSE)>>, ix) :
        a \in Users, ix \in {NameOnlyPatch, LongNamePatch}}
    \* an account the registry does not own, and too few accounts
    \cup {UpdateCall(EntryMetas(KeyB, KeyB), NameOnlyPatch),
          UpdateCall(<<Meta(Pda(World1), FALSE)>>, NameOnlyPatch)}

DelistCalls ==
    {DelistCall(EntryMetas(k, a)) : k \in {Pda(World1), Pda(World2)}, a \in Users}
    \cup {DelistCall(<<Meta(Pda(World1), FALSE), Meta(a, FALSE)>>) : a \in Users}
    \cup {DelistCall(EntryMetas(KeyB, KeyB)), DelistCall(<<Meta(Pda(World1), FALSE)>>)}

Calls == RegisterCalls \cup UpdateCalls \cup DelistCalls

(***************************************************************************)
(* The state machine.  The host runs one instruction at a time and commits *)
(* what the handler wrote only when it returns Ok.                         *)
(***************************************************************************)
InitAccounts ==
    [k \in Keys |->
        IF k = KeyA THEN [EmptyAccount EXCEPT !.lamports = MaxLamports - 1]
        ELSE IF k = KeyB THEN [EmptyAccount EXCEPT !.lamports = 2 * RentMinimum]
        ELSE EmptyAccount]

\* No client holds a record.
NoCodec == record = <<>> /\ wire = <<>> /\ readback = <<>>

\* No fixed-width field is under test.
NoStrings == cell = <<>> /\ fixed = [op |-> "none"]

\* No message, and a byte source with nothing in it: `head`, then `pad`
\* further bytes that are all spaces.
NoMessage == [type |-> "none"]
Stream(head, pad) == [head |-> head, pad |-> pad]
EmptyStream == Stream(<<>>, 0)
NoRead == [read |-> [res |-> "none"], source |-> EmptyStream]

\* No stream is open.
NoFraming == wrote = NoMessage /\ inbound = EmptyStream /\ got = NoRead

\* No connection is open.
NoGame ==
    /\ manifest = [res |-> "none"]
    /\ conn = [pc |-> "none"]
    /\ outbound = EmptyStream
    /\ reply = NoRead

\* No admin API is running.
NoAdmin ==
    /\ auth = [mode |-> "none"]
    /\ request = [route |-> "none"]
    /\ response = [status |-> 0]

NoOffchain == NoStrings /\ NoFraming /\ NoGame /\ NoAdmin

NoCall == [op |-> "None", res |-> "None", key |-> SYSTEM_PROGRAM_ID, after |-> SYSTEM_PROGRAM_ID]

Init ==
    /\ accounts = InitAccounts
    /\ clock = 0
    /\ last = NoCall
    /\ delistedBy = [k \in Keys |-> SYSTEM_PROGRAM_ID]
    /\ pending = <<>>
    /\ outcome = <<>>
    /\ NoCodec
    /\ NoOffchain

\* The account a call names as the world entry (0 when it names too few).
EntryKey(call) ==
    LET i == IF call.op = "Register" THEN 2 ELSE 1 IN
    IF Len(call.metas) < i THEN SYSTEM_PROGRAM_ID ELSE call.metas[i].key

\* The host commits the handler's writes on Ok and drops them otherwise.
\* History: last is the call just made; delistedBy[k] is the authority that
\* delisted slot k, for as long as the slot stays delisted.
Commit(call, ret) ==
    /\ accounts' = IF ret.res = "Ok" THEN ret.led ELSE accounts
    /\ last' = [op |-> call.op, res |-> ret.res, key |-> EntryKey(call),
                after |-> IF call.op = "Register" /\ ret.res = "Ok"
                          THEN delistedBy[EntryKey(call)] ELSE SYSTEM_PROGRAM_ID]
    /\ delistedBy' =
         IF call.op = "Delist" /\ ret.res = "Ok"
         THEN [delistedBy EXCEPT ![EntryKey(call)] = call.metas[2].key]
         ELSE IF call.op = "Register" /\ ret.res = "Ok"
         THEN [delistedBy EXCEPT ![EntryKey(call)] = SYSTEM_PROGRAM_ID]
         ELSE delistedBy
    /\ UNCHANGED <<clock, pending, outcome, codec, offchain>>

Register ==
    \E call \in RegisterCalls :
        Commit(call, process(PROGRAM_ID, accounts, call, clock))

Update ==
    \E call \in UpdateCalls :
        Commit(call, process(PROGRAM_ID, accounts, call, clock))

Delist ==
    \E call \in DelistCalls :
        Commit(call, process(PROGRAM_ID, accounts, call, clock))

\* The host clock moves to the next slot.
Tick ==
    /\ clock < MaxSlot
    /\ clock' = clock + 1
    /\ UNCHANGED <<accounts, last, delistedBy, pending, outcome, codec, offchain>>

Next == Register \/ Update \/ Delist \/ Tick

Spec == Init /\ [][Next]_vars

(***************************************************************************)
(* Two Register calls for the same world in flight at once.  The host      *)
(* holds both and runs them one after the other, in either order; each     *)
(* run is one atomic invocation of the processor.                          *)
(***************************************************************************)
RaceCalls == {c \in RegisterCalls : c.ix.world_id = WorldIdBytes(World1)}

\* The slot after a Register and a Delist: no balance, zeroed bytes.
DelistedAccounts ==
    LET reg == process(PROGRAM_ID, InitAccounts,
                       RegisterCall(RegisterMetas(KeyA, Pda(World1), KeyA),
                                    ScenarioA(World1)), 0)
    IN process(PROGRAM_ID, reg.led, DelistCall(EntryMetas(Pda(World1), KeyA)), 0).led

InitRace ==
    /\ accounts \in {InitAccounts, DelistedAccounts}
    /\ clock = 0
    /\ last = NoCall
    /\ delistedBy = [k \in Keys |-> SYSTEM_PROGRAM_ID]
    /\ pending \in [1..2 -> RaceCalls]
    /\ outcome = [i \in 1..2 |-> "pending"]
    /\ NoCodec
    /\ NoOffchain

Execute(i) ==
    /\ outcome[i] = "pending"
    /\ LET ret == process(PROGRAM_ID, accounts, pending[i], clock) IN
       /\ accounts' = IF ret.res = "Ok" THEN ret.led ELSE accounts
       /\ outcome' = [outcome EXCEPT ![i] = ret.res]
    /\ UNCHANGED <<clock, last, delistedBy, pending, codec, offchain>>

NextRace == \E i \in 1..2 : Execute(i)

SpecRace == InitRace /\ [][NextRace]_vars

(***************************************************************************)
(* What the properties read.  The layout of a World Record, as byte        *)
(* positions 1..358 of the account data.                                   *)
(***************************************************************************)
At ==
    [magic |-> <<1, 8>>, version |-> <<9, 9>>, bump |-> <<10, 10>>,
     world_id |-> <<11, 26>>, authority |-> <<27, 58>>, name |-> <<59, 90>>,
     endpoint |-> <<91, 154>>, game_port |-> <<155, 156>>,
     asset_port |-> <<157, 158>>, token_mint |-> <<159, 190>>,
     dbc_pool |-> <<191, 222>>, metadata_uri |-> <<223, 350>>,
     last_update_slot |-> <<351, 358>>]

Slice(data, f) == SubSeq(data, At[f][1], At[f][2])

Pdas == {Pda(World1), Pda(World2)}

\* Account k is owned by the registry and holds a record with valid magic
\* and version.
HoldsRecord(led, k) ==
    /\ led[k].owner = PROGRAM_ID
    /\ Len(led[k].data) = 358
    /\ Slice(led[k].data, "magic") = WORLD_ENTRY_MAGIC
    /\ Slice(led[k].data, "version") = <<WORLD_ENTRY_VERSION>>

\* The record in account k names a world id whose derived address is k.
AtDerivedAddress(led, k) ==
    find_program_address(Slice(led[k].data, "world_id"), PROGRAM_ID).key = k

Run(call) == process(PROGRAM_ID, accounts, call, clock)

\* The string an instruction carries for field f (<<>> when it omits it).
Carried(call, f) ==
    IF call.op = "Register" THEN call.ix[f]
    ELSE IF call.ix[f] = None THEN <<>> ELSE call.ix[f][1]

CarriesLongString(call) ==
    \/ Len(Carried(call, "name")) > 32
    \/ Len(Carried(call, "endpoint")) > 64
    \/ Len(Carried(call, "metadata_uri")) > 128

\* An Update or Delist that reaches the point where the patch is applied or
\* the balance is drained: two accounts, a signing authority that is the
\* stored one, a registry-owned valid record at its derived address.
PassesEntryChecks(call) ==
    /\ Len(call.metas) >= 2
    /\ call.metas[2].is_signer
    /\ call.metas[1].key \in Keys
    /\ HoldsRecord(accounts, call.metas[1].key)
    /\ AtDerivedAddress(accounts, call.metas[1].key)
    /\ Slice(accounts[call.metas[1].key].data, "authority") = Rep(call.metas[2].key, 32)

\* A Register that reaches the balance test: strings within their caps,
\* four accounts, both signatures, the system program, the derived address.
PassesRegisterChecks(call) ==
    /\ ~CarriesLongString(call)
    /\ Len(call.metas) >= 4
    /\ call.metas[1].is_signer /\ call.metas[3].is_signer
    /\ call.metas[4].key = SYSTEM_PROGRAM_ID
    /\ call.metas[2].key = find_program_address(call.ix.world_id, PROGRAM_ID).key

(***************************************************************************)
(* C1.  For every well-formed record held in a registry-owned account at   *)
(* its derived address, an Update or a Delist signed by an authority       *)
(* account whose key differs from the stored authority fails with          *)
(* Unauthorized and leaves every account (bytes and balances) unchanged.   *)
(***************************************************************************)
C1_WrongSignerIsUnauthorized ==
    \A call \in UpdateCalls \cup DelistCalls :
        ( /\ Len(call.metas) >= 2
          /\ call.metas[2].is_signer
          /\ call.metas[1].key \in Keys
          /\ HoldsRecord(accounts, call.metas[1].key)
          /\ AtDerivedAddress(accounts, call.metas[1].key)
          /\ Slice(accounts[call.metas[1].key].data, "authority")
                # Rep(call.metas[2].key, 32) )
        => /\ Run(call).res = "Unauthorized"
           /\ Run(call).led = accounts

C1_Witness ==
    /\ last.op = "Update"
    /\ last.res = "Unauthorized"
    /\ HoldsRecord(accounts, last.key)

(***************************************************************************)
(* C2 as stated: every Register or Update that carries a name, endpoint or *)
(* metadata_uri over its cap fails with StringTooLong and mutates nothing. *)
(* The Updates are taken in the claim's favour: only those addressed, with *)
(* a signature, to a live record at its derived address.                   *)
(***************************************************************************)
C2_Original ==
    \A call \in RegisterCalls \cup UpdateCalls :
        ( /\ CarriesLongString(call)
          /\ call.op = "Update" =>
                /\ Len(call.metas) >= 2
                /\ call.metas[2].is_signer
                /\ HoldsRecord(accounts, call.metas[1].key)
                /\ AtDerivedAddress(accounts, call.metas[1].key) )
        => Run(call).res = "StringTooLong" /\ Run(call).led = accounts

(***************************************************************************)
(* C2 as amended.  A Register that carries a string over its cap fails     *)
(* with StringTooLong whatever else the call holds.  An Update that        *)
(* carries one fails: with StringTooLong when it passes the checks made    *)
(* before the patch (accounts, signature, owner, record, address,          *)
(* authority), and with the error of the first of those checks otherwise.  *)
(* In every case no account is allocated and no byte or balance changes.   *)
(***************************************************************************)
C2_LongStringRejected ==
    \A call \in RegisterCalls \cup UpdateCalls :
        CarriesLongString(call)
        => /\ Run(call).res # "Ok"
           /\ Run(call).led = accounts
           /\ call.op = "Register" => Run(call).res = "StringTooLong"
           /\ (call.op = "Update" /\ PassesEntryChecks(call))
                => Run(call).res = "StringTooLong"
           /\ (call.op = "Update" /\ ~PassesEntryChecks(call))
                => Run(call).res \in {"NotEnoughAccountKeys", "MissingRequiredSignature",
                                     "IncorrectProgramId", "InvalidAccountData",
                                     "InvalidPda", "Unauthorized"}

C2_Witness ==
    /\ last.op = "Update"
    /\ last.res = "StringTooLong"
    /\ HoldsRecord(accounts, last.key)

(***************************************************************************)
(* C3.  After a successful Delist of a world, a Register for the same      *)
(* world by any payer and any authority gives what it gives on a slot      *)
(* that was never used: the same result code and, when it succeeds, the    *)
(* same accounts; and it does succeed whenever it passes the checks of     *)
(* Register and its payer can fund the account.                            *)
(***************************************************************************)
NeverUsed(led, k) == [led EXCEPT ![k] = EmptyAccount]

C3_RegisterAfterDelist ==
    \A k \in Pdas : \A call \in RegisterCalls :
        (delistedBy[k] # SYSTEM_PROGRAM_ID /\ EntryKey(call) = k)
        => LET here == Run(call)
               fresh == process(PROGRAM_ID, NeverUsed(accounts, k), call, clock)
           IN /\ here.res = fresh.res
              /\ here.res = "Ok" => here.led = fresh.led
              /\ ( /\ PassesRegisterChecks(call)
                    /\ accounts[call.metas[1].key].lamports >= RentMinimum )
                  => here.res = "Ok"

\* A world delisted by one authority is registered again under another.
C3_Witness ==
    /\ last.op = "Register"
    /\ last.res = "Ok"
    /\ last.after # SYSTEM_PROGRAM_ID
    /\ HoldsRecord(accounts, last.key)
    /\ Slice(accounts[last.key].data, "authority") # Rep(last.after, 32)

(***************************************************************************)
(* C4 as stated: a Register whose target storage account holds a balance   *)
(* fails with AlreadyInitialized and changes nothing.  The target is taken *)
(* in the claim's favour: the address derived from the call's world_id.    *)
(***************************************************************************)
C4_Original ==
    \A call \in RegisterCalls :
        ( /\ Len(call.metas) >= 4
          /\ call.metas[2].key = find_program_address(call.ix.world_id, PROGRAM_ID).key
          /\ accounts[call.metas[2].key].lamports > 0 )
        => Run(call).res = "AlreadyInitialized" /\ Run(call).led = accounts

(***************************************************************************)
(* C4 as amended.  A Register whose target storage account holds a         *)
(* non-zero balance fails and leaves every account unchanged; it fails     *)
(* with AlreadyInitialized when it passes the checks made before the       *)
(* balance test (string caps, account count, signatures, system program,   *)
(* derived address).  The balance alone decides: a Register that passes    *)
(* those checks returns AlreadyInitialized exactly when the balance is     *)
(* non-zero, whatever bytes the account holds.                             *)
(***************************************************************************)
C4_BalanceDecidesInitialized ==
    \A call \in RegisterCalls :
        /\ ( /\ Len(call.metas) >= 2
              /\ call.metas[2].key \in Keys
              /\ accounts[call.metas[2].key].lamports > 0 )
           => Run(call).res # "Ok" /\ Run(call).led = accounts
        /\ PassesRegisterChecks(call)
           => ( Run(call).res = "AlreadyInitialized"
                <=> accounts[call.metas[2].key].lamports > 0 )

C4_Witness ==
    /\ last.op = "Register"
    /\ last.res = "AlreadyInitialized"
    /\ HoldsRecord(accounts, last.key)
    /\ accounts[last.key].lamports > 0

(***************************************************************************)
(* C5.  Two Register calls for the same world_id are in flight against an  *)
(* Uninitialized slot, each of which would succeed were it alone, and the  *)
(* host runs them one at a time.  Once both have run, exactly one has      *)
(* succeeded and the other has failed with AlreadyInitialized, whichever   *)
(* ran first, and the stored authority is that of the call that            *)
(* succeeded.                                                              *)
(***************************************************************************)
WouldSucceedAlone(call) ==
    /\ PassesRegisterChecks(call)
    /\ InitAccounts[call.metas[1].key].lamports >= RentMinimum

C5_OneRegisterWins ==
    ( /\ pending # <<>>
      /\ WouldSucceedAlone(pending[1]) /\ WouldSucceedAlone(pending[2]) )
    => /\ outcome[1] # "pending" => outcome[1] \in {"Ok", "AlreadyInitialized"}
       /\ outcome[2] # "pending" => outcome[2] \in {"Ok", "AlreadyInitialized"}
       /\ (outcome[1] # "pending" \/ outcome[2] # "pending")
            => \E w \in 1..2 :
                 /\ outcome[w] = "Ok"
                 /\ outcome[3 - w] # "Ok"
                 /\ Slice(accounts[Pda(World1)].data, "authority")
                      = Rep(pending[w].metas[3].key, 32)
                 /\ accounts[Pda(World1)].lamports = RentMinimum

\* The second call ran first and won; the first call, for another
\* authority, found the slot taken.
C5_Witness ==
    /\ pending # <<>>
    /\ outcome[2] = "Ok"
    /\ outcome[1] = "AlreadyInitialized"
    /\ pending[1].metas[3].key # pending[2].metas[3].key
    /\ Slice(accounts[Pda(World1)].data, "authority") = Rep(pending[2].metas[3].key, 32)

(***************************************************************************)
(* C6.  In Register, Update and Delist every check that can reject the     *)
(* call comes before the first write: whenever a handler returns a         *)
(* failure, the accounts as it left them (bytes, owner, balance) are the   *)
(* accounts as it found them.                                              *)
(***************************************************************************)
C6_FailureWritesNothing ==
    \A call \in Calls :
        Run(call).res # "Ok" => Run(call).led = accounts

\* A Delist stopped by its last check, the overflow test.
C6_Witness ==
    /\ last.op = "Delist"
    /\ last.res = "ArithmeticOverflow"
    /\ HoldsRecord(accounts, last.key)

(***************************************************************************)
(* C7.  A successful Update leaves every field its patch omits             *)
(* byte-identical, and touches no other account: an Update that sets only  *)
(* the name changes no byte outside name and last_update_slot.  The same   *)
(* Update signed by a key that is not the stored authority fails with      *)
(* Unauthorized and the stored name is unchanged.                          *)
(***************************************************************************)
PatchFields ==
    {"name", "endpoint", "game_port", "asset_port", "token_mint", "dbc_pool",
     "metadata_uri"}

C7_UpdateFrame ==
    \A call \in UpdateCalls :
        LET k == EntryKey(call)
            before == accounts[k].data
            after == Run(call).led[k].data
        IN
        /\ Run(call).res = "Ok" =>
              /\ \A f \in PatchFields :
                    call.ix[f] = None => Slice(after, f) = Slice(before, f)
              /\ \A f \in {"magic", "version", "bump", "world_id", "authority"} :
                    Slice(after, f) = Slice(before, f)
              /\ Len(after) = Len(before)
              /\ \A j \in Keys \ {k} : Run(call).led[j] = accounts[j]
              /\ Run(call).led[k].lamports = accounts[k].lamports
              /\ Run(call).led[k].owner = accounts[k].owner
        /\ ( /\ call.ix = NameOnlyPatch
              /\ Len(call.metas) >= 2
              /\ call.metas[2].is_signer
              /\ k \in Keys
              /\ HoldsRecord(accounts, k)
              /\ AtDerivedAddress(accounts, k) )
           => IF Slice(before, "authority") = Rep(call.metas[2].key, 32)
              THEN /\ Run(call).res = "Ok"
                   /\ Slice(after, "name") = <<78, 101, 119>> \o Zeros(29)
              ELSE /\ Run(call).res = "Unauthorized"
                   /\ Slice(after, "name") = Slice(before, "name")

\* A name-only Update went through on a record whose optional fields are set.
C7_Witness ==
    /\ last.op = "Update"
    /\ last.res = "Ok"
    /\ Slice(accounts[last.key].data, "name") = <<78, 101, 119>> \o Zeros(29)
    /\ Slice(accounts[last.key].data, "token_mint") = Rep(3, 32)
    /\ Slice(accounts[last.key].data, "endpoint") = <<51>> \o Zeros(63)

(***************************************************************************)
(* C8.  A Register that passes all preconditions stores a record whose     *)
(* authority is the key of the authority account (not the payer's), whose  *)
(* last_update_slot is the host clock's current slot, whose world_id,      *)
(* name, endpoint, game_port and metadata_uri are the supplied values, and *)
(* whose asset_port, token_mint and dbc_pool hold the absent sentinel      *)
(* (0, all-zero) whenever the instruction omits them.                      *)
(***************************************************************************)
\* A logical string in a fixed-width field: the string, then zeros.
Padded(str, n) == str \o [i \in 1..(n - Len(str)) |-> 0]
\* A small number in n little-endian bytes.
LittleEndian(v, n) == [i \in 1..n |-> IF i = 1 THEN v % 256
                                       ELSE IF i = 2 THEN (v \div 256) % 256 ELSE 0]

C8_RegisterStoresRecord ==
    \A call \in RegisterCalls :
        Run(call).res = "Ok" =>
            LET k == EntryKey(call)
                data == Run(call).led[k].data
            IN
            /\ Len(data) = 358
            /\ Slice(data, "magic") = WORLD_ENTRY_MAGIC
            /\ Slice(data, "version") = <<WORLD_ENTRY_VERSION>>
            /\ Slice(data, "authority") = Rep(call.metas[3].key, 32)
            /\ Slice(data, "last_update_slot") = LittleEndian(clock, 8)
            /\ Slice(data, "world_id") = call.ix.world_id
            /\ Slice(data, "name") = Padded(call.ix.name, 32)
            /\ Slice(data, "endpoint") = Padded(call.ix.endpoint, 64)
            /\ Slice(data, "game_port") = LittleEndian(call.ix.game_port, 2)
            /\ Slice(data, "metadata_uri") = Padded(call.ix.metadata_uri, 128)
            /\ Slice(data, "asset_port") =
                  IF call.ix.asset_port = None THEN <<0, 0>>
                  ELSE LittleEndian(call.ix.asset_port[1], 2)
            /\ Slice(data, "token_mint") =
                  IF call.ix.token_mint = None THEN Rep(0, 32) ELSE call.ix.token_mint[1]
            /\ Slice(data, "dbc_pool") =
                  IF call.ix.dbc_pool = None THEN Rep(0, 32) ELSE call.ix.dbc_pool[1]

\* Scenario A at a slot after 0, paid by A for authority B: B's balance is
\* untouched and B is the stored authority.
C8_Witness ==
    /\ last.op = "Register"
    /\ last.res = "Ok"
    /\ last.key = Pda(World1)
    /\ clock > 0
    /\ Slice(accounts[last.key].data, "last_update_slot") = LittleEndian(clock, 8)
    /\ Slice(accounts[last.key].data, "authority") = Rep(KeyB, 32)
    /\ accounts[KeyB].lamports = 2 * RentMinimum
    /\ Slice(accounts[last.key].data, "token_mint") = Rep(0, 32)

(***************************************************************************)
(* C9.  A successful Delist leaves the storage account with balance zero   *)
(* and every data byte zero, and raises the authority account's balance by *)
(* exactly what the storage account held; when that addition would         *)
(* overflow, the Delist fails with ArithmeticOverflow and no balance and   *)
(* no byte changes.                                                        *)
(***************************************************************************)
C9_DelistDrainsAndZeroes ==
    \A call \in DelistCalls :
        LET k == call.metas[1].key
            a == call.metas[2].key
            ret == Run(call)
        IN
        /\ ret.res = "Ok" =>
              /\ ret.led[k].lamports = 0
              /\ ret.led[k].data = [i \in 1..Len(accounts[k].data) |-> 0]
              /\ ret.led[a].lamports = accounts[a].lamports + accounts[k].lamports
              /\ \A j \in Keys \ {k, a} : ret.led[j] = accounts[j]
        /\ ( /\ PassesEntryChecks(call)
              /\ accounts[a].lamports + accounts[k].lamports > MaxLamports )
           => ret.res = "ArithmeticOverflow" /\ ret.led = accounts
        /\ ( /\ PassesEntryChecks(call)
              /\ accounts[a].lamports + accounts[k].lamports <= MaxLamports )
           => ret.res = "Ok"

C9_Witness ==
    /\ last.op = "Delist"
    /\ last.res = "Ok"
    /\ accounts[last.key].lamports = 0
    /\ accounts[last.key].data = Rep(0, 358)
    /\ delistedBy[last.key] # SYSTEM_PROGRAM_ID

(***************************************************************************)
(* C10 as stated: a Register, Update or Delist whose supplied storage      *)
(* account is not the address derived from the world id (the               *)
(* instruction's for Register, the stored record's for Update and Delist)  *)
(* fails with InvalidPda and changes no account.                           *)
(***************************************************************************)
\* The address derived from the world id the call is about.
DerivedFor(call) ==
    IF call.op = "Register"
    THEN find_program_address(call.ix.world_id, PROGRAM_ID).key
    ELSE find_program_address(Slice(accounts[call.metas[1].key].data, "world_id"),
                              PROGRAM_ID).key

\* The call names a storage account, and for Update and Delist that account
\* holds a record to take the world id from.
NamesStorage(call) ==
    IF call.op = "Register" THEN Len(call.metas) >= 4
    ELSE Len(call.metas) >= 2 /\ HoldsRecord(accounts, call.metas[1].key)

PassesChecksBeforePda(call) ==
    IF call.op = "Register"
    THEN /\ ~CarriesLongString(call)
         /\ call.metas[1].is_signer /\ call.metas[3].is_signer
         /\ call.metas[4].key = SYSTEM_PROGRAM_ID
    ELSE /\ call.metas[2].is_signer
         /\ call.op = "Delist" =>
               Slice(accounts[call.metas[1].key].data, "authority")
                 = Rep(call.metas[2].key, 32)

BASE58_ALPHABET ==
    <<49, 50, 51, 52, 53, 54, 55, 56, 57,
      65, 66, 67, 68, 69, 70, 71, 72, 74, 75, 76, 77, 78,
      80, 81, 82, 83, 84, 85, 86, 87, 88, 89, 90,
      97, 98, 99, 100, 101, 102, 103, 104, 105, 106, 107,
      109, 110, 111, 112, 113, 114, 115, 116, 117, 118, 119, 120, 121, 122>>

\* Long division of a big-endian base-256 number by the size of the alphabet.
RECURSIVE DivMod58(_, _, _)
DivMod58(digits, rem, quot) ==
    IF digits = <<>> THEN [quot |-> quot, rem |-> rem]
    ELSE LET cur == rem * 256 + Head(digits) IN
         DivMod58(Tail(digits), cur % Len(BASE58_ALPHABET),
                  Append(quot, cur \div Len(BASE58_ALPHABET)))

RECURSIVE StripZeros(_)
StripZeros(digits) ==
    IF digits = <<>> \/ digits[1] # 0 THEN digits ELSE StripZeros(Tail(digits))

\* The base-58 digits of a big-endian number, most significant first.
RECURSIVE Base58Digits(_)
Base58Digits(digits) ==
    LET d == StripZeros(digits) IN
    IF d = <<>> THEN <<>>
    ELSE LET r == DivMod58(d, 0, <<>>) IN Append(Base58Digits(r.quot), r.rem)

\* bs58::encode(..).into_string(): one '1' for each leading zero byte, then
\* the digits of the rest.
bs58_encode(bytes) ==
    LET zeros == Len(bytes) - Len(StripZeros(bytes))
        digits == Base58Digits(bytes)
    IN [i \in 1..zeros |-> BASE58_ALPHABET[1]]
       \o [i \in 1..Len(digits) |-> BASE58_ALPHABET[digits[i] + 1]]

\* u64::to_string: the decimal digits.
RECURSIVE to_string(_)
to_string(v) ==
    IF v < 10 THEN <<48 + v>> ELSE Append(to_string(v \div 10), 48 + (v % 10))

\* Uuid::from_bytes keeps the sixteen bytes.
Uuid_from_bytes(bytes) == bytes

\* A variant that looks at the first byte only.
optional_key_first_byte(bytes) ==
    IF bytes[1] = 0 THEN None ELSE Some(bs58_encode(bytes))

\* Lines 68-77: an all-zero key is no key.
optional_key(bytes) ==
    IF bytes = Zeros(PUBKEY_LEN) THEN None ELSE Some(bs58_encode(bytes))

\* Lines 54-90, the body of the loop: the directory entry made from one
\* account's bytes, or None when the bytes are skipped.
directory_entry(data) ==
    LET decoded == try_from_slice(data) IN
    IF ~decoded.ok THEN None
    ELSE Some([world_id |-> Uuid_from_bytes(decoded.entry.world_id),
               name |-> read_fixed_string(decoded.entry.name),
               endpoint |-> read_fixed_string(decoded.entry.endpoint),
               port |-> decoded.entry.game_port,
               token_mint |-> optional_key(decoded.entry.token_mint),
               dbc_pool |-> optional_key(decoded.entry.dbc_pool),
               world_pubkey |-> Some(bs58_encode(decoded.entry.authority)),
               last_seen |-> Some(to_string(decoded.entry.last_update_slot))])

\* getProgramAccounts: the accounts the program owns.
getProgramAccounts(led, program_id) == {k \in DOMAIN led : led[k].owner = program_id}

\* fetch_worlds_from_rpc: the entries of the accounts the scan keeps.
fetch_worlds_from_rpc(led, registry_program_id) ==
    {directory_entry(led[k].data)[1] :
        k \in {a \in getProgramAccounts(led, registry_program_id) :
                  directory_entry(led[a].data) # None}}

\* The magic, schema-version and layout checks of the record codec.
PassesCodecChecks(data) ==
    /\ Len(data) = WorldEntry_LEN
    /\ Slice(data, "magic") = WORLD_ENTRY_MAGIC
    /\ Slice(data, "version") = <<WORLD_ENTRY_VERSION>>

(***************************************************************************)
(* C11.  The scan gives a directory entry only for registry accounts whose *)
(* bytes pass the magic, version and layout checks: an account with a      *)
(* wrong magic, a wrong version, a wrong length or all-zero bytes (a       *)
(* delisted slot) yields no entry.                                         *)
(***************************************************************************)
C11_ScanDiscardsInvalid ==
    \A k \in getProgramAccounts(accounts, PROGRAM_ID) :
        ~PassesCodecChecks(accounts[k].data) =>
            directory_entry(accounts[k].data) = None

(***************************************************************************)
(* The record codec on its own: a client holds a WorldEntry, serializes    *)
(* it and reads the bytes back.                                            *)
(***************************************************************************)
\* u16::MAX
u16_MAX == 2^16 - 1

\* A fixed-width field holding a string, as write_fixed_string leaves it.
FixedString(str, n) == write_fixed_string(Zeros(n), str).dst

\* WorldEntry values: every field at its width, the integers at both ends
\* of their range and across a byte boundary.
Records ==
    [magic : {WORLD_ENTRY_MAGIC},
     version : {WORLD_ENTRY_VERSION},
     bump : {0, 255},
     world_id : {WorldIdBytes(World1), WorldIdBytes(World2)},
     authority : {to_bytes(KeyA), to_bytes(KeyB)},
     name : {FixedString(<<>>, NAME_LEN), FixedString(<<65, 112>>, NAME_LEN),
             Rep(110, NAME_LEN)},
     endpoint : {FixedString(<<49, 50>>, ENDPOINT_LEN)},
     game_port : {0, 7777, u16_MAX},
     asset_port : {0, 256},
     token_mint : {Zeros(PUBKEY_LEN), Rep(3, PUBKEY_LEN)},
     dbc_pool : {Zeros(PUBKEY_LEN), Rep(4, PUBKEY_LEN)},
     metadata_uri : {FixedString(<<117>>, METADATA_URI_LEN)},
     last_update_slot : {0, 1, 256, 2147483647}]

InitCodec ==
    /\ accounts = InitAccounts
    /\ clock = 0
    /\ last = NoCall
    /\ delistedBy = [k \in Keys |-> SYSTEM_PROGRAM_ID]
    /\ pending = <<>>
    /\ outcome = <<>>
    /\ record \in Records
    /\ wire = <<>>
    /\ readback = <<>>
    /\ NoOffchain

\* borsh::to_vec(&entry)
Encode ==
    /\ wire = <<>>
    /\ wire' = Serialize(record)
    /\ UNCHANGED <<accounts, clock, last, delistedBy, pending, outcome, record, readback, offchain>>

\* WorldEntry::try_from_slice(&bytes)
Decode ==
    /\ wire # <<>>
    /\ readback = <<>>
    /\ readback' = try_from_slice(wire)
    /\ UNCHANGED <<accounts, clock, last, delistedBy, pending, outcome, record, wire, offchain>>

NextCodec == Encode \/ Decode

SpecCodec == InitCodec /\ [][NextCodec]_vars

(***************************************************************************)
(* C12.  The encoding of a record is 358 bytes long, and decoding it gives *)
(* back a record equal to the original in each of its thirteen fields.     *)
(***************************************************************************)
C12_RoundTrip ==
    /\ wire # <<>> => Len(wire) = 358
    /\ readback # <<>> =>
          /\ readback.ok
          /\ Cardinality(DOMAIN record) = 13
          /\ DOMAIN readback.entry = DOMAIN record
          /\ \A f \in DOMAIN record : readback.entry[f] = record[f]

\* A record with every optional field set and the largest port and slot has
\* been encoded and read back.
C12_Witness ==
    /\ readback # <<>>
    /\ record.game_port = u16_MAX
    /\ record.asset_port = 256
    /\ record.last_update_slot = 2147483647
    /\ record.token_mint # Zeros(PUBKEY_LEN)
    /\ record.name = Rep(110, NAME_LEN)

(***************************************************************************)
(* C13.  WorldEntry::LEN is 358, the sum of the field widths; it is the    *)
(* length of the serialized form of every WorldEntry and the size of the   *)
(* account a successful Register allocates.                                *)
(***************************************************************************)
C13_LengthInvariant ==
    /\ WorldEntry_LEN = 358
    /\ WorldEntry_LEN = 8 + 1 + 1 + 16 + 32 + 32 + 64 + 2 + 2 + 32 + 32 + 128 + 8
    /\ WorldEntry_LEN = EncodedLen
    /\ \A k \in Pdas :
          HoldsRecord(accounts, k) =>
              Len(Serialize(try_from_slice(accounts[k].data).entry)) = WorldEntry_LEN
    /\ \A call \in RegisterCalls :
          LET ret == Run(call)
              data == ret.led[EntryKey(call)].data
          IN ret.res = "Ok" =>
                /\ Len(data) = WorldEntry_LEN
                /\ try_from_slice(data).ok
                /\ Len(Serialize(try_from_slice(data).entry)) = WorldEntry_LEN

\* A Register has allocated the second world's account, after the first.
C13_Witness ==
    /\ last.op = "Register"
    /\ last.res = "Ok"
    /\ last.key = Pda(World2)
    /\ Len(accounts[Pda(World1)].data) = WorldEntry_LEN
    /\ Len(accounts[Pda(World2)].data) = WorldEntry_LEN

(***************************************************************************)
(* The optional fields.  An owner publishes one world and patches its      *)
(* asset_port, token_mint and dbc_pool, each patch field in one of its     *)
(* three states: None (no change), Some(None) (clear), Some(Some(v)).      *)
(***************************************************************************)
ThreeStates(v) == {None, Some(None), Some(Some(v))}

\* A key whose first byte is zero.
LowKey == <<0>> \o Rep(6, PUBKEY_LEN - 1)

ThreeStatePatches ==
    {[EmptyPatch EXCEPT !.asset_port = a, !.token_mint = t, !.dbc_pool = d] :
        a \in ThreeStates(9090), t \in ThreeStates(Rep(5, PUBKEY_LEN)),
        d \in ThreeStates(LowKey)}

PublishCalls ==
    {RegisterCall(RegisterMetas(KeyA, Pda(World1), KeyA), ix) :
        ix \in {ScenarioA(World1), FullRegister(World1)}}

PatchCalls ==
    {UpdateCall(EntryMetas(Pda(World1), KeyA), ix) : ix \in ThreeStatePatches}
    \cup {UpdateCall(EntryMetas(Pda(World1), KeyB), [EmptyPatch EXCEPT !.token_mint = Some(None)])}

Publish ==
    \E call \in PublishCalls :
        Commit(call, process(PROGRAM_ID, accounts, call, clock))

\* One UpdateWorld; last keeps the patch and the bytes it found.
Patch ==
    \E call \in PatchCalls :
        LET ret == process(PROGRAM_ID, accounts, call, clock) IN
        /\ accounts' = IF ret.res = "Ok" THEN ret.led ELSE accounts
        /\ last' = [op |-> call.op, res |-> ret.res, key |-> EntryKey(call),
                    after |-> SYSTEM_PROGRAM_ID, ix |-> call.ix,
                    before |-> accounts[EntryKey(call)].data]
        /\ UNCHANGED <<clock, delistedBy, pending, outcome, codec, offchain>>

NextPatch == Publish \/ Patch \/ Tick

SpecPatch == Init /\ [][NextPatch]_vars

\* The sentinel of an absent key.
KeySentinel == Zeros(PUBKEY_LEN)

(***************************************************************************)
(* C14.  The directory reads an all-zero token_mint or dbc_pool as absent  *)
(* and a non-zero one as present; a Register that omits the field and an   *)
(* Update that clears it store 32 zero bytes.                              *)
(***************************************************************************)
C14_SentinelMapping ==
    /\ \A k \in getProgramAccounts(accounts, PROGRAM_ID) :
          LET data == accounts[k].data
              listed == directory_entry(data)
          IN listed # None =>
                \A f \in {"token_mint", "dbc_pool"} :
                    listed[1][f] = None <=> Slice(data, f) = KeySentinel
    /\ \A call \in PublishCalls \cup PatchCalls :
          LET ret == Run(call)
              data == ret.led[EntryKey(call)].data
              absent == IF call.op = "Register" THEN None ELSE Some(None)
          IN ret.res = "Ok" =>
                \A f \in {"token_mint", "dbc_pool"} :
                    call.ix[f] = absent => Slice(data, f) = KeySentinel

\* An Update has cleared the token_mint of a world published with one, and
\* has set a dbc_pool whose first byte is zero: the directory lists the
\* world without a token_mint and with a dbc_pool.
C14_Witness ==
    /\ last.op = "Update"
    /\ last.res = "Ok"
    /\ last.ix.token_mint = Some(None)
    /\ last.ix.dbc_pool = Some(Some(LowKey))
    /\ Slice(last.before, "token_mint") = Rep(3, PUBKEY_LEN)
    /\ directory_entry(accounts[last.key].data)[1].token_mint = None
    /\ directory_entry(accounts[last.key].data)[1].dbc_pool # None

\* What a patch field in one of its three states leaves in a stored field.
Patched(old, patch, sentinel, value) ==
    IF patch = None THEN old
    ELSE IF patch = Some(None) THEN sentinel
    ELSE value

(***************************************************************************)
(* C16.  A successful Update treats asset_port, token_mint and dbc_pool    *)
(* each in three states: omitted keeps the stored value, an explicit clear *)
(* stores the sentinel (0, or 32 zero bytes), an explicit value stores     *)
(* that value.                                                             *)
(***************************************************************************)
C16_ThreeStatePatch ==
    \A call \in PatchCalls :
        LET ret == Run(call)
            old == accounts[EntryKey(call)].data
            new == ret.led[EntryKey(call)].data
        IN ret.res = "Ok" =>
              /\ Slice(new, "asset_port") =
                    Patched(Slice(old, "asset_port"), call.ix.asset_port, <<0, 0>>,
                            IF call.ix.asset_port \in {None, Some(None)} THEN <<>>
                            ELSE LittleEndian(call.ix.asset_port[1][1], 2))
              /\ \A f \in {"token_mint", "dbc_pool"} :
                    Slice(new, f) =
                        Patched(Slice(old, f), call.ix[f], KeySentinel,
                                IF call.ix[f] \in {None, Some(None)} THEN <<>>
                                ELSE call.ix[f][1][1])

\* One Update on a world published with every optional field has cleared
\* the asset_port, kept the token_mint and set the dbc_pool.
C16_Witness ==
    /\ last.op = "Update"
    /\ last.res = "Ok"
    /\ last.ix.asset_port = Some(None)
    /\ last.ix.token_mint = None
    /\ last.ix.dbc_pool = Some(Some(LowKey))
    /\ Slice(last.before, "asset_port") = LittleEndian(8080, 2)
    /\ Slice(last.before, "dbc_pool") = Rep(4, PUBKEY_LEN)
    /\ Slice(accounts[last.key].data, "asset_port") = <<0, 0>>
    /\ Slice(accounts[last.key].data, "token_mint") = Rep(3, PUBKEY_LEN)
    /\ Slice(accounts[last.key].data, "dbc_pool") = LowKey

(***************************************************************************)
(* C15.  The address deriver gives the same (address, bump) each time it   *)
(* is asked for the same world_id: the pair Register computes from the     *)
(* instruction's world_id is the pair derived again from the stored        *)
(* world_id, so a later Update or Delist of that world finds its account   *)
(* at the address it re-derives.                                           *)
(***************************************************************************)
C15_SameAddressEveryTime ==
    /\ \A call \in RegisterCalls :
          LET ret == Run(call)
              first == find_program_address(call.ix.world_id, PROGRAM_ID)
          IN ret.res = "Ok" =>
                LET stored == try_from_slice(ret.led[EntryKey(call)].data).entry
                    again == find_program_address(stored.world_id, PROGRAM_ID)
                IN /\ again = first
                   /\ again.key = EntryKey(call)
                   /\ stored.bump = again.bump
    /\ \A call \in UpdateCalls \cup DelistCalls :
          HoldsRecord(accounts, EntryKey(call)) =>
              LET ret == Run(call)
                  before == try_from_slice(accounts[EntryKey(call)].data).entry
              IN /\ ret.res # "InvalidPda"
                 /\ find_program_address(before.world_id, PROGRAM_ID).key = EntryKey(call)
                 /\ (call.op = "Update" /\ ret.res = "Ok") =>
                       find_program_address(
                           try_from_slice(ret.led[EntryKey(call)].data).entry.world_id,
                           PROGRAM_ID).key = EntryKey(call)

\* An Update of the second world went through: the address it derived from
\* the stored world_id is the account Register created.
C15_Witness ==
    /\ last.op = "Update"
    /\ last.res = "Ok"
    /\ last.key = Pda(World2)
    /\ find_program_address(Slice(accounts[Pda(World2)].data, "world_id"),
                            PROGRAM_ID).key = Pda(World2)
    /\ find_program_address(WorldIdBytes(World2), PROGRAM_ID).key = Pda(World2)

(***************************************************************************)
(* C17.  Every successful Update stores the host clock's current slot in   *)
(* last_update_slot, also when its patch omits every field.                *)
(***************************************************************************)
C17_UpdateRefreshesSlot ==
    \A call \in PatchCalls \cup UpdateCalls :
        LET ret == Run(call) IN
        ret.res = "Ok" =>
            /\ Slice(ret.led[EntryKey(call)].data, "last_update_slot")
                  = LittleEndian(clock, 8)
            /\ try_from_slice(ret.led[EntryKey(call)].data).entry.last_update_slot = clock

\* An Update that omits every field ran in a later slot than the Register:
\* only the last_update_slot bytes changed.
C17_Witness ==
    /\ last.op = "Update"
    /\ last.res = "Ok"
    /\ last.ix = EmptyPatch
    /\ clock > 0
    /\ Slice(last.before, "last_update_slot") = LittleEndian(0, 8)
    /\ Slice(accounts[last.key].data, "last_update_slot") = LittleEndian(clock, 8)
    /\ SubSeq(accounts[last.key].data, 1, 350) = SubSeq(last.before, 1, 350)

\* A call that names the accounts its handler reads and lacks a signature
\* the handler asks for: the payer's or the authority's for Register, the
\* authority's for Update and Delist.
LacksSignature(call) ==
    IF call.op = "Register"
    THEN /\ Len(call.metas) >= 4
         /\ ~call.metas[1].is_signer \/ ~call.metas[3].is_signer
    ELSE /\ Len(call.metas) >= 2
         /\ ~call.metas[2].is_signer

(***************************************************************************)
(* C18, as stated.  A Register without the payer's or the authority's      *)
(* signature, and an Update or Delist without the authority's, fails with  *)
(* MissingRequiredSignature and creates or changes no account.             *)
(***************************************************************************)
C18_Original ==
    \A call \in Calls :
        LacksSignature(call) =>
            /\ Run(call).res = "MissingRequiredSignature"
            /\ Run(call).led = accounts

(***************************************************************************)
(* C18.  A call that lacks a required signature fails and creates or       *)
(* changes no account.  The failure is MissingRequiredSignature for every  *)
(* Update and Delist, and for a Register whose strings are within their    *)
(* caps; a Register that also carries a string over its cap fails with     *)
(* StringTooLong, the check made first.                                    *)
(***************************************************************************)
C18_SignaturesRequired ==
    \A call \in Calls :
        LacksSignature(call) =>
            /\ Run(call).led = accounts
            /\ Run(call).res =
                  IF call.op = "Register" /\ CarriesLongString(call)
                  THEN "StringTooLong"
                  ELSE "MissingRequiredSignature"

\* A Register without a signature was turned away from a free slot while
\* another world is listed: the slot is still free.
C18_Witness ==
    /\ last.op = "Register"
    /\ last.res = "MissingRequiredSignature"
    /\ last.key = Pda(World1)
    /\ accounts[Pda(World1)] = EmptyAccount
    /\ HoldsRecord(accounts, Pda(World2))

(***************************************************************************)
(* Storage accounts the registry did not write with this schema.  The      *)
(* host hands Update and Delist whatever bytes a registry-owned account    *)
(* holds: a buffer of another length, the record of another schema         *)
(* version, other leading bytes, or the zeroes of a delisted slot.         *)
(***************************************************************************)
\* The ledger after KeyA registered World1 at slot 0.
RegisteredAccounts ==
    process(PROGRAM_ID, InitAccounts,
            RegisterCall(RegisterMetas(KeyA, Pda(World1), KeyA), ScenarioA(World1)),
            0).led

LiveRecord == RegisteredAccounts[Pda(World1)].data

\* Buffers that fail the decoding or the magic / version comparison.
MalformedData ==
    {Zeros(0), Zeros(WorldEntry_LEN - 1), Zeros(WorldEntry_LEN), Zeros(WorldEntry_LEN + 1),
     SubSeq(LiveRecord, 1, WorldEntry_LEN - 1),
     LiveRecord \o <<0>>,
     [LiveRecord EXCEPT ![1] = 0],
     [LiveRecord EXCEPT ![MAGIC_LEN] = 50],
     [LiveRecord EXCEPT ![MAGIC_LEN + 1] = 0],
     [LiveRecord EXCEPT ![MAGIC_LEN + 1] = WORLD_ENTRY_VERSION + 1]}

\* The record itself at its derived address, or a malformed buffer there or
\* in an account at a user's address assigned to the registry.
InitForeign ==
    /\ accounts \in
          {RegisteredAccounts}
          \cup {[RegisteredAccounts EXCEPT ![Pda(World1)].data = d] : d \in MalformedData}
          \cup {[InitAccounts EXCEPT ![KeyB].owner = PROGRAM_ID, ![KeyB].data = d] :
                   d \in MalformedData}
    /\ clock = 0
    /\ last = NoCall
    /\ delistedBy = [k \in Keys |-> SYSTEM_PROGRAM_ID]
    /\ pending = <<>>
    /\ outcome = <<>>
    /\ NoCodec
    /\ NoOffchain

NextForeign == Update \/ Delist \/ Tick

SpecForeign == InitForeign /\ [][NextForeign]_vars

\* An Update or Delist, with its two accounts, aimed at a registry-owned
\* account whose bytes fail the codec's checks.
AimedAtMalformed(call) ==
    /\ Len(call.metas) >= 2
    /\ accounts[EntryKey(call)].owner = PROGRAM_ID
    /\ ~PassesCodecChecks(accounts[EntryKey(call)].data)

(***************************************************************************)
(* C19, as stated.  Update and Delist fail with InvalidAccountData whenever *)
(* the registry-owned storage account's data does not decode to the        *)
(* declared length or carries another magic or version, and change         *)
(* nothing.                                                                *)
(***************************************************************************)
C19_Original ==
    \A call \in UpdateCalls \cup DelistCalls :
        AimedAtMalformed(call) =>
            /\ Run(call).res = "InvalidAccountData"
            /\ Run(call).led = accounts

(***************************************************************************)
(* C19.  An Update or Delist aimed at a registry-owned account whose data  *)
(* has another length, magic or version changes nothing; when the          *)
(* authority account signed it fails with InvalidAccountData, whoever the  *)
(* signer is and whatever address the account has (no stored authority or  *)
(* world_id is consulted), and when it did not sign, with                  *)
(* MissingRequiredSignature.                                               *)
(***************************************************************************)
C19_MalformedRecordRejected ==
    \A call \in UpdateCalls \cup DelistCalls :
        AimedAtMalformed(call) =>
            /\ Run(call).led = accounts
            /\ Run(call).res =
                  IF call.metas[2].is_signer THEN "InvalidAccountData"
                  ELSE "MissingRequiredSignature"

\* A Delist was refused on an account that holds the record of the next
\* schema version, with the expected magic and a balance: nothing was
\* drained.
C19_Witness ==
    /\ last.op = "Delist"
    /\ last.res = "InvalidAccountData"
    /\ Len(accounts[last.key].data) = WorldEntry_LEN
    /\ Slice(accounts[last.key].data, "magic") = WORLD_ENTRY_MAGIC
    /\ Slice(accounts[last.key].data, "version") = <<WORLD_ENTRY_VERSION + 1>>
    /\ accounts[last.key].owner = PROGRAM_ID
    /\ accounts[last.key].lamports = RentMinimum

(***************************************************************************)
(* The instruction decoder: RegistryInstruction::try_from_slice over the   *)
(* Borsh encoding.  An enum is its variant index in one byte followed by   *)
(* the variant's fields; a String is its length in four little-endian      *)
(* bytes followed by UTF-8; an Option is a byte 0, or a byte 1 followed by *)
(* the value.  A reader returns the value and the bytes it left.           *)
(***************************************************************************)
Failed == [ok |-> FALSE]
Read(val, rest) == [ok |-> TRUE, val |-> val, rest |-> rest]

take(input, n) ==
    IF Len(input) < n THEN Failed
    ELSE Read(SubSeq(input, 1, n), SubSeq(input, n + 1, Len(input)))

read_u16(input) ==
    LET t == take(input, 2) IN IF t.ok THEN Read(FromLE(t.val), t.rest) ELSE Failed

read_world_id(input) == take(input, WORLD_ID_LEN)
read_key(input) == take(input, PUBKEY_LEN)

\* String: a u32 length, then that many bytes of UTF-8.  A length with its
\* top bit set is longer than any buffer.
read_string(input) ==
    LET l == take(input, 4) IN
    IF ~l.ok \/ l.val[4] >= 128 THEN Failed
    ELSE LET s == take(l.rest, FromLE(l.val)) IN
         IF s.ok /\ valid_utf8(s.val) THEN s ELSE Failed

\* Some(v) of a value read, or the failure to read it.
read_some(value) ==
    IF value.ok THEN Read(Some(value.val), value.rest) ELSE Failed

\* The reader of one field.  A type is the list of its constructors, as in
\* <<"Option", "Option", "u16">> for Option<Option<u16>>.  For an Option
\* any first byte other than 0 and 1 is an error.
RECURSIVE read_value(_, _)
read_value(input, type) ==
    CASE type[1] = "u16" -> read_u16(input)
      [] type[1] = "[u8; 16]" -> read_world_id(input)
      [] type[1] = "[u8; 32]" -> read_key(input)
      [] type[1] = "String" -> read_string(input)
      [] type[1] = "Option" ->
            IF input = <<>> \/ input[1] > 1 THEN Failed
            ELSE IF input[1] = 0 THEN Read(None, Tail(input))
            ELSE read_some(read_value(Tail(input), Tail(type)))

\* A value in front of the values read after it.
read_after(val, others) ==
    IF others.ok THEN Read(<<val>> \o others.val, others.rest) ELSE Failed

\* The fields of a variant, in declaration order.
RECURSIVE read_fields(_, _)
RECURSIVE read_next(_, _)
read_next(first, types) ==
    IF first.ok THEN read_after(first.val, read_fields(first.rest, types)) ELSE Failed

read_fields(input, types) ==
    IF types = <<>> THEN Read(<<>>, input)
    ELSE read_next(read_value(input, Head(types)), Tail(types))

\* RegisterWorld { world_id, name, endpoint, game_port, asset_port,
\* token_mint, dbc_pool, metadata_uri }
RegisterWorldFields ==
    <<<<"[u8; 16]">>, <<"String">>, <<"String">>, <<"u16">>, <<"Option", "u16">>,
      <<"Option", "[u8; 32]">>, <<"Option", "[u8; 32]">>, <<"String">>>>

\* UpdateWorld { name, endpoint, game_port, asset_port, token_mint,
\* dbc_pool, metadata_uri }
UpdateWorldFields ==
    <<<<"Option", "String">>, <<"Option", "String">>, <<"Option", "u16">>,
      <<"Option", "Option", "u16">>, <<"Option", "Option", "[u8; 32]">>,
      <<"Option", "Option", "[u8; 32]">>, <<"Option", "String">>>>

\* The variant built from its field values.
RegisterWorld(v) ==
    [op |-> "Register",
     ix |-> [world_id |-> v[1], name |-> v[2], endpoint |-> v[3], game_port |-> v[4],
             asset_port |-> v[5], token_mint |-> v[6], dbc_pool |-> v[7],
             metadata_uri |-> v[8]]]

UpdateWorld(v) ==
    [op |-> "Update",
     ix |-> [name |-> v[1], endpoint |-> v[2], game_port |-> v[3], asset_port |-> v[4],
             token_mint |-> v[5], dbc_pool |-> v[6], metadata_uri |-> v[7]]]

DelistWorld == [op |-> "Delist", ix |-> <<>>]

\* The variant of a list of fields read.
read_variant(index, fields) ==
    IF ~fields.ok THEN Failed
    ELSE Read(IF index = 0 THEN RegisterWorld(fields.val)
              ELSE IF index = 1 THEN UpdateWorld(fields.val)
              ELSE DelistWorld,
              fields.rest)

\* BorshDeserialize for RegistryInstruction: the variant index in one byte,
\* then the fields; val is the instruction as a call without its accounts.
read_instruction(input) ==
    IF input = <<>> \/ input[1] > 2 THEN Failed
    ELSE read_variant(input[1],
                      read_fields(Tail(input),
                                  IF input[1] = 0 THEN RegisterWorldFields
                                  ELSE IF input[1] = 1 THEN UpdateWorldFields
                                  ELSE <<>>))

\* The instruction read, when nothing is asked of the bytes left.
accept(r) ==
    IF r.ok THEN [ok |-> TRUE, op |-> r.val.op, ix |-> r.val.ix] ELSE Failed

\* The instruction read, when no byte may be left.
accept_all(r) ==
    IF r.ok /\ r.rest = <<>> THEN [ok |-> TRUE, op |-> r.val.op, ix |-> r.val.ix]
    ELSE Failed

\* A variant that does not mind bytes left over.
decode_prefix(input) == accept(read_instruction(input))

\* instruction::decode: try_from_slice fails when bytes are left over, and
\* every failure becomes InvalidInstructionData.
decode(input) == accept_all(read_instruction(input))

\* The handler's answer to what was decoded.
dispatch(program_id, led, metas, decoded, slot) ==
    IF ~decoded.ok THEN Ret("InvalidInstructionData", led)
    ELSE process(program_id, led,
                 [op |-> decoded.op, metas |-> metas, ix |-> decoded.ix], slot)

\* Processor::process: decode, then dispatch to the handler.
process_instruction(program_id, led, metas, instruction_data, slot) ==
    dispatch(program_id, led, metas, decode(instruction_data), slot)

(***************************************************************************)
(* BorshSerialize for RegistryInstruction: what a client sends.            *)
(***************************************************************************)
write_u16(v) == ToLE(v, 2)
write_key(bytes) == bytes
write_string(str) == ToLE(Len(str), 4) \o str
\* Option<T>: `written` is the encoding of the value inside a Some.
write_option(opt, written) == IF opt = None THEN <<0>> ELSE <<1>> \o written
write_option_u16(opt) == write_option(opt, write_u16(unwrap_or(opt, 0)))
write_option_key(opt) == write_option(opt, write_key(unwrap_or(opt, <<>>)))
write_option_string(opt) == write_option(opt, write_string(unwrap_or(opt, <<>>)))
write_option_option_u16(opt) == write_option(opt, write_option_u16(unwrap_or(opt, None)))
write_option_option_key(opt) == write_option(opt, write_option_key(unwrap_or(opt, None)))

encode(call) ==
    CASE call.op = "Register" ->
            <<0>> \o call.ix.world_id \o write_string(call.ix.name)
            \o write_string(call.ix.endpoint) \o write_u16(call.ix.game_port)
            \o write_option_u16(call.ix.asset_port)
            \o write_option_key(call.ix.token_mint)
            \o write_option_key(call.ix.dbc_pool)
            \o write_string(call.ix.metadata_uri)
      [] call.op = "Update" ->
            <<1>> \o write_option_string(call.ix.name)
            \o write_option_string(call.ix.endpoint)
            \o write_option_u16(call.ix.game_port)
            \o write_option_option_u16(call.ix.asset_port)
            \o write_option_option_key(call.ix.token_mint)
            \o write_option_option_key(call.ix.dbc_pool)
            \o write_option_string(call.ix.metadata_uri)
      [] call.op = "Delist" -> <<2>>

(***************************************************************************)
(* The program as the host invokes it: a list of accounts and a buffer of  *)
(* instruction bytes.  pending holds the invocation, outcome its result.   *)
(***************************************************************************)
\* A name of two bytes that is one character, and one of 33 bytes that is
\* eleven characters.
AccentedName == <<195, 169>>
ElevenEuros == [i \in 1..(NAME_MAX_LEN + 1) |-> <<226, 130, 172>>[((i - 1) % 3) + 1]]

\* Instructions clients encode.
SampleInstructions ==
    {[op |-> "Register", ix |-> ix] :
        ix \in {ScenarioA(World1), FullRegister(World1), LongNameRegister(World1),
                LongEndpointRegister(World1), LongUriRegister(World1),
                [ScenarioA(World1) EXCEPT !.name = AccentedName],
                [ScenarioA(World1) EXCEPT !.name = ElevenEuros]}}
    \cup {[op |-> "Update", ix |-> ix] :
        ix \in {EmptyPatch, NameOnlyPatch, LongNamePatch, LongEndpointPatch, LongUriPatch,
                [EmptyPatch EXCEPT !.asset_port = Some(None),
                                   !.token_mint = Some(Some(Rep(5, PUBKEY_LEN))),
                                   !.dbc_pool = Some(None)]}}
    \cup {[op |-> "Delist", ix |-> <<>>]}

WellFormedBuffers == {encode(c) : c \in SampleInstructions}

\* Byte sequences no String holds.
NotUtf8 == {<<255, 254>>, <<128>>, <<192, 128>>, <<226, 130>>, <<237, 160, 128>>}

\* Where the name's length and the asset_port's tag sit in an encoded
\* RegisterWorld that has a two-byte name and endpoint.
NameLengthAt == 1 + WORLD_ID_LEN + 1
AssetPortTagAt == 1 + WORLD_ID_LEN + (4 + 2) + (4 + 2) + 2 + 1

\* Buffers that are not the encoding of an instruction: nothing, an unknown
\* variant, an encoding cut short or followed by a byte, an Option tag
\* other than 0 and 1, a string that is not UTF-8, a string length beyond
\* the buffer.
MalformedBuffers ==
    {<<>>, <<3>>, <<255>>}
    \cup {g \o <<0>> : g \in WellFormedBuffers}
    \cup {SubSeq(g, 1, Len(g) - 1) : g \in WellFormedBuffers}
    \cup {SubSeq(g, 1, n) : g \in {b \in WellFormedBuffers : Len(b) > NameLengthAt},
                            n \in {1, NameLengthAt}}
    \cup {[encode([op |-> "Register", ix |-> ScenarioA(World1)])
              EXCEPT ![AssetPortTagAt] = 2],
          [encode([op |-> "Update", ix |-> EmptyPatch]) EXCEPT ![2] = 2],
          [encode([op |-> "Register", ix |-> ScenarioA(World1)])
              EXCEPT ![NameLengthAt] = 200],
          [encode([op |-> "Register", ix |-> ScenarioA(World1)])
              EXCEPT ![NameLengthAt + 3] = 255]}
    \cup {encode([op |-> "Register", ix |-> [ScenarioA(World1) EXCEPT !.name = s]]) :
             s \in NotUtf8}
    \cup {encode([op |-> "Update", ix |-> [EmptyPatch EXCEPT !.name = Some(s)]]) :
             s \in NotUtf8}

Buffers == WellFormedBuffers \cup MalformedBuffers

AccountLists ==
    {RegisterMetas(KeyA, Pda(World1), KeyA),
     EntryMetas(Pda(World1), KeyA),
     EntryMetas(Pda(World1), KeyB)}

InitDecode ==
    /\ accounts \in {InitAccounts, RegisteredAccounts}
    /\ clock = 0
    /\ last = NoCall
    /\ delistedBy = [k \in Keys |-> SYSTEM_PROGRAM_ID]
    /\ pending \in {<<[metas |-> m, data |-> d]>> : m \in AccountLists, d \in Buffers}
    /\ outcome = <<"pending">>
    /\ NoCodec
    /\ NoOffchain

\* The host runs the pending invocation.
Invoke ==
    /\ outcome[1] = "pending"
    /\ LET ret == process_instruction(PROGRAM_ID, accounts, pending[1].metas,
                                      pending[1].data, clock)
       IN /\ accounts' = IF ret.res = "Ok" THEN ret.led ELSE accounts
          /\ outcome' = <<ret.res>>
    /\ UNCHANGED <<clock, last, delistedBy, pending, codec, offchain>>

NextDecode == Invoke

SpecDecode == InitDecode /\ [][NextDecode]_vars

\* The pending invocation, what the decoder makes of its bytes, and what
\* the program returns for it.
Invocation == pending[1]
Decoded == decode(Invocation.data)
DecodedCall == [op |-> Decoded.op, metas |-> Invocation.metas, ix |-> Decoded.ix]
Returned ==
    process_instruction(PROGRAM_ID, accounts, Invocation.metas, Invocation.data, clock)

\* The decoder turns away what is not an encoding, before any handler, and
\* gives the handlers exactly the instruction that was encoded.
DecoderGate ==
    /\ Invocation.data \notin WellFormedBuffers =>
          /\ ~Decoded.ok
          /\ Returned.res = "InvalidInstructionData"
          /\ Returned.led = accounts
    /\ Invocation.data \in WellFormedBuffers =>
          /\ Decoded.ok
          /\ [op |-> Decoded.op, ix |-> Decoded.ix] \in SampleInstructions
          /\ encode(Decoded) = Invocation.data
          /\ Returned = process(PROGRAM_ID, accounts, DecodedCall, clock)
          /\ Returned.res # "InvalidInstructionData"

\* The bytes encode a Register or Update with a string over its cap.
EncodesLongString ==
    /\ Decoded.ok
    /\ Decoded.op # "Delist"
    /\ CarriesLongString(DecodedCall)

(***************************************************************************)
(* C20, as stated.  The decoder rejects every buffer that is not a         *)
(* complete encoding with InvalidInstructionData before a handler runs,    *)
(* and accepts an encoding whose string is over its cap, for which the     *)
(* program then reports StringTooLong.  The Updates are taken in the       *)
(* claim's favour: signed, and aimed at a live record at its derived       *)
(* address.                                                                *)
(***************************************************************************)
C20_Original ==
    outcome[1] = "pending" =>
        /\ DecoderGate
        /\ ( /\ EncodesLongString
             /\ Decoded.op = "Update" =>
                   /\ Len(Invocation.metas) = 2
                   /\ Invocation.metas[2].is_signer
                   /\ HoldsRecord(accounts, Invocation.metas[1].key)
                   /\ AtDerivedAddress(accounts, Invocation.metas[1].key) )
           => Returned.res = "StringTooLong"

(***************************************************************************)
(* C20.  The decoder rejects every buffer that is not a complete encoding  *)
(* of Register, Update or Delist with InvalidInstructionData before any    *)
(* handler runs and with no account changed.  It accepts an encoding whose *)
(* name, endpoint or metadata_uri is over its cap: the program's failure   *)
(* is then never a decode failure; it is StringTooLong for a Register and  *)
(* for an Update that passes the checks made before the patch, and the     *)
(* error of the first of those checks for any other Update.                *)
(***************************************************************************)
C20_DecoderGate ==
    /\ outcome[1] = "pending" =>
          /\ DecoderGate
          /\ EncodesLongString =>
                /\ Returned.led = accounts
                /\ Returned.res =
                      IF Decoded.op = "Register" \/ PassesEntryChecks(DecodedCall)
                      THEN "StringTooLong"
                      ELSE update_world(PROGRAM_ID, accounts, Invocation.metas,
                                        EmptyPatch, clock).res
                /\ Returned.res \notin {"Ok", "InvalidInstructionData"}
    /\ outcome[1] # "pending" =>
          (outcome[1] = "InvalidInstructionData" <=> Invocation.data \in MalformedBuffers)

\* The host ran a RegisterWorld whose name is eleven characters in 33
\* bytes: the bytes decoded and the handler answered StringTooLong.
C20_Witness ==
    /\ outcome = <<"StringTooLong">>
    /\ Invocation.data \in WellFormedBuffers
    /\ Decoded.ok
    /\ Decoded.op = "Register"
    /\ Decoded.ix.name = ElevenEuros
    /\ accounts = InitAccounts


(***************************************************************************)
(* The fixed-width string helpers on their own: a field of N bytes that    *)
(* holds anything, strings written into it and read back from it.          *)
(***************************************************************************)
\* The capacity of the field, the const generic N of write_fixed_string.
N == 2

\* NUL, 'A', the two bytes of U+00E9, and a byte no UTF-8 text contains.
SampleBytes == {0, 65, 195, 169, 255}

\* [u8; N]
Fields == [1..N -> SampleBytes]

\* &str: UTF-8 of up to one byte more than the field takes.
Texts == {s \in UNION {[1..n -> SampleBytes] : n \in 0..(N + 1)} : valid_utf8(s)}

\* The part of the state the registry works on.
ledger == <<accounts, clock, last, delistedBy, pending, outcome>>

\* The registry at rest: nothing registered, no call made.
IdleLedger ==
    /\ accounts = InitAccounts
    /\ clock = 0
    /\ last = NoCall
    /\ delistedBy = [k \in Keys |-> SYSTEM_PROGRAM_ID]
    /\ pending = <<>>
    /\ outcome = <<>>
    /\ NoCodec

InitFixed ==
    /\ IdleLedger
    /\ cell \in Fields
    /\ fixed = [op |-> "none"]
    /\ NoFraming
    /\ NoGame
    /\ NoAdmin

\* write_fixed_string(&mut cell, src)
WriteString ==
    \E src \in Texts :
        LET r == write_fixed_string(cell, src) IN
        /\ cell' = r.dst
        /\ fixed' = [op |-> "write", src |-> src, before |-> cell, ok |-> r.ok]
        /\ UNCHANGED <<ledger, codec, framing, game, admin>>

\* read_fixed_string(&cell)
ReadString ==
    /\ fixed' = [op |-> "read", bytes |-> cell, out |-> read_fixed_string(cell)]
    /\ UNCHANGED <<ledger, codec, cell, framing, game, admin>>

NextFixed == WriteString \/ ReadString

SpecFixed == InitFixed /\ [][NextFixed]_vars

\* The bytes of a field before its first zero byte, all of them if none is zero.
BeforeZero(bytes) ==
    LET zs == {i \in 1..Len(bytes) : bytes[i] = 0} IN
    IF zs = {} THEN bytes
    ELSE SubSeq(bytes, 1, (CHOOSE i \in zs : \A j \in zs : i <= j) - 1)

\* What a write leaves: failure exactly for a string longer than the field,
\* and then the field as it was; otherwise the string, then zeros only.
WriteContract ==
    fixed.op = "write" =>
        /\ Len(cell) = N
        /\ fixed.ok <=> Len(fixed.src) <= N
        /\ ~fixed.ok => cell = fixed.before
        /\ fixed.ok => /\ SubSeq(cell, 1, Len(fixed.src)) = fixed.src
                       /\ \A i \in (Len(fixed.src) + 1)..N : cell[i] = 0

Lifecycle(led, k) ==
    IF HoldsRecord(led, k) THEN "Active"
    ELSE IF led[k].owner = PROGRAM_ID THEN "Delisted"
    ELSE "Uninitialized"

\* The step is an instruction (the clock stands still), and the call it ran
\* was op on slot k and returned Ok.
Succeeded(op, k) ==
    /\ clock' = clock
    /\ last'.op = op
    /\ last'.res = "Ok"
    /\ last'.key = k

\* C22: per slot the lifecycle only moves from Uninitialized or Delisted to
\* Active, by a successful Register of that slot, and from Active to
\* Delisted, by a successful Delist of that slot; a successful Update finds
\* the slot Active and leaves it Active, and a call that fails leaves every
\* slot in the lifecycle state it was in.
C22_Lifecycle ==
    [][\A k \in Pdas :
         LET before == Lifecycle(accounts, k)
             after == Lifecycle(accounts', k)
         IN
         /\ before # after =>
              \/ before # "Active" /\ after = "Active" /\ Succeeded("Register", k)
              \/ before = "Active" /\ after = "Delisted" /\ Succeeded("Delist", k)
         /\ Succeeded("Register", k) => before # "Active" /\ after = "Active"
         /\ Succeeded("Delist", k) => before = "Active" /\ after = "Delisted"
         /\ Succeeded("Update", k) => before = "Active" /\ after = "Active"
         /\ (clock' = clock /\ last'.res # "Ok") => after = before]_vars

\* One slot has just been delisted while the other is Active.
C22_Witness ==
    \E k \in Pdas :
        /\ last.op = "Delist" /\ last.res = "Ok" /\ last.key = k
        /\ Lifecycle(accounts, k) = "Delisted"
        /\ \E j \in Pdas \ {k} : Lifecycle(accounts, j) = "Active"


\* The fields that say which world a record is and who may change it.
IdentityFields == {"magic", "version", "bump", "world_id", "authority"}

\* C23: a slot that holds a record keeps holding one, with the same magic,
\* schema version, bump, world_id and authority, across every step that is
\* not a successful Delist of that slot: no Register, no Update (successful
\* or failed, whoever signs it) and no failed Delist alters them.
C23_IdentityFrozen ==
    [][\A k \in Pdas :
         (Lifecycle(accounts, k) = "Active" /\ ~Succeeded("Delist", k)) =>
            /\ Lifecycle(accounts', k) = "Active"
            /\ \A f \in IdentityFields :
                 Slice(accounts'[k].data, f) = Slice(accounts[k].data, f)]_vars

\* An Update signed by the stored authority has just rewritten the name of
\* a record.
C23_Witness ==
    /\ last.op = "Update"
    /\ last.res = "Ok"
    /\ Lifecycle(accounts, last.key) = "Active"
    /\ Slice(accounts[last.key].data, "name") = FixedString(NameOnlyPatch.name[1], NAME_LEN)
    /\ Slice(accounts[last.key].data, "authority") # Zeros(PUBKEY_LEN)


\* C24: in every state reached from the empty ledger, each registry-owned
\* account that holds a record with valid magic and version sits at the
\* address derived from the record's world_id and stores the bump of that
\* derivation, and no Update or Delist returns InvalidPda.
C24_RecordsAtDerivedAddress ==
    /\ \A k \in Keys :
         HoldsRecord(accounts, k) =>
            LET derived == find_program_address(Slice(accounts[k].data, "world_id"),
                                                PROGRAM_ID)
            IN /\ derived.key = k
               /\ Slice(accounts[k].data, "bump") = <<derived.bump>>
    /\ \A call \in UpdateCalls \cup DelistCalls : Run(call).res # "InvalidPda"

\* Both slots hold a record, with different bumps, and the last call was a
\* successful Update.
C24_Witness ==
    /\ \A k \in Pdas : HoldsRecord(accounts, k)
    /\ Slice(accounts[Pda(World1)].data, "bump") # Slice(accounts[Pda(World2)].data, "bump")
    /\ last.op = "Update"
    /\ last.res = "Ok"


\* An Update or Delist with both of its accounts, aimed at slot k.
AddressedTo(call, k) ==
    /\ call.op \in {"Update", "Delist"}
    /\ Len(call.metas) >= 2
    /\ call.metas[1].key = k

\* C25 as stated: while a slot is delisted and not registered again, every
\* Update and every Delist addressed to it fails with InvalidAccountData or
\* with the owner mismatch IncorrectProgramId, and changes nothing.
C25_Original ==
    \A k \in Pdas : \A call \in UpdateCalls \cup DelistCalls :
        (delistedBy[k] # SYSTEM_PROGRAM_ID /\ AddressedTo(call, k)) =>
            /\ Run(call).res \in {"InvalidAccountData", "IncorrectProgramId"}
            /\ Run(call).led = accounts

\* C25: while a slot is delisted and not registered again, every Update and
\* every Delist addressed to it fails and changes nothing, so that no second
\* Delist credits the former authority; the failure is InvalidAccountData or
\* the owner mismatch IncorrectProgramId when the authority account signed,
\* and MissingRequiredSignature when it did not.
C25_DelistedStaysDead ==
    \A k \in Pdas : \A call \in UpdateCalls \cup DelistCalls :
        (delistedBy[k] # SYSTEM_PROGRAM_ID /\ AddressedTo(call, k)) =>
            LET ret == Run(call) IN
            /\ ret.led = accounts
            /\ ret.res = IF ~call.metas[2].is_signer THEN "MissingRequiredSignature"
                         ELSE IF accounts[k].owner # PROGRAM_ID THEN "IncorrectProgramId"
                         ELSE "InvalidAccountData"
            /\ accounts[k].lamports = 0

\* The authority that delisted a slot has just tried to delist it again.
C25_Witness ==
    /\ last.op = "Delist"
    /\ last.res = "InvalidAccountData"
    /\ delistedBy[last.key] # SYSTEM_PROGRAM_ID
    /\ accounts[delistedBy[last.key]].lamports > 0


\* The last_update_slot stored in account k.
StoredSlot(led, k) == FromLE(Slice(led[k].data, "last_update_slot"))

\* C26: the host clock never moves back, and with it the last_update_slot
\* of a record never decreases and never runs ahead of the clock; it
\* changes only in a successful Register or Update of its slot, and after
\* such a call it equals the clock's slot at that call.
C26_SlotMonotonic ==
    [][/\ clock' >= clock
       /\ \A k \in Pdas :
            LET written == Succeeded("Register", k) \/ Succeeded("Update", k) IN
            /\ written => StoredSlot(accounts', k) = clock
            /\ Lifecycle(accounts', k) = "Active" => StoredSlot(accounts', k) <= clock'
            /\ (Lifecycle(accounts, k) = "Active" /\ Lifecycle(accounts', k) = "Active") =>
                  /\ StoredSlot(accounts', k) >= StoredSlot(accounts, k)
                  /\ StoredSlot(accounts', k) # StoredSlot(accounts, k) => written]_vars

\* A record registered at slot 0 and delisted was registered again after
\* the clock had moved on.
C26_Witness ==
    /\ last.op = "Register"
    /\ last.res = "Ok"
    /\ last.after # SYSTEM_PROGRAM_ID
    /\ clock > 0
    /\ StoredSlot(accounts, last.key) = clock


\* The sum of the balances of a set of accounts.
RECURSIVE Balance(_, _)
Balance(led, ks) ==
    IF ks = {} THEN 0
    ELSE LET k == CHOOSE x \in ks : TRUE IN led[k].lamports + Balance(led, ks \ {k})

\* C27: whatever the call, the sum of all balances is the same after it as
\* before it.  An Update changes no balance; a successful Register moves
\* exactly the rent-exempt minimum for 358 bytes from the payer to the
\* storage account; a successful Delist moves the storage account's whole
\* balance to the authority; no other balance moves.
C27_BalanceConserved ==
    \A call \in Calls :
        LET ret == Run(call)
            after == IF ret.res = "Ok" THEN ret.led ELSE accounts
            moved == {k \in Keys : after[k].lamports # accounts[k].lamports}
        IN
        /\ Balance(after, Keys) = Balance(accounts, Keys)
        /\ Balance(ret.led, Keys) = Balance(accounts, Keys)
        /\ call.op = "Update" => moved = {}
        /\ ret.res # "Ok" => moved = {}
        /\ (call.op = "Register" /\ ret.res = "Ok") =>
              LET payer == call.metas[1].key
                  entry == call.metas[2].key
              IN /\ moved = {payer, entry}
                 /\ after[entry].lamports = RentMinimum
                 /\ accounts[entry].lamports = 0
                 /\ after[payer].lamports = accounts[payer].lamports - RentMinimum
        /\ (call.op = "Delist" /\ ret.res = "Ok") =>
              LET entry == call.metas[1].key
                  authority == call.metas[2].key
              IN /\ moved = {entry, authority}
                 /\ after[entry].lamports = 0
                 /\ after[authority].lamports =
                       accounts[authority].lamports + accounts[entry].lamports

\* A world has just been delisted, its balance gone to its authority, while
\* the other world still holds the rent-exempt minimum and the user who is
\* not the authority is short of what was paid.
C27_Witness ==
    /\ last.op = "Delist"
    /\ last.res = "Ok"
    /\ accounts[last.key].lamports = 0
    /\ accounts[delistedBy[last.key]].lamports = InitAccounts[delistedBy[last.key]].lamports
    /\ \E j \in Pdas : accounts[j].lamports = RentMinimum
    /\ \E u \in Users \ {delistedBy[last.key]} :
          accounts[u].lamports = InitAccounts[u].lamports - RentMinimum


(***************************************************************************)
(* owp-protocol: the messages, their JSON form (serde_json over the        *)
(* derived Serialize and Deserialize) and the length-prefixed framing of   *)
(* wire.rs.  Text is kept as its UTF-8 bytes.                              *)
(***************************************************************************)
\* "0.1"
OWP_PROTOCOL_VERSION == <<48, 46, 49>>
\* "type"
key_type == <<116, 121, 112, 101>>
\* "protocol_version"
key_protocol_version == <<112, 114, 111, 116, 111, 99, 111, 108, 95, 118, 101, 114, 115, 105, 111, 110>>
\* "request_id"
key_request_id == <<114, 101, 113, 117, 101, 115, 116, 95, 105, 100>>
\* "world_id"
key_world_id == <<119, 111, 114, 108, 100, 95, 105, 100>>
\* "client_name"
key_client_name == <<99, 108, 105, 101, 110, 116, 95, 110, 97, 109, 101>>
\* "token_mint"
key_token_mint == <<116, 111, 107, 101, 110, 95, 109, 105, 110, 116>>
\* "motd"
key_motd == <<109, 111, 116, 100>>
\* "capabilities"
key_capabilities == <<99, 97, 112, 97, 98, 105, 108, 105, 116, 105, 101, 115>>
\* "hello"
tag_hello == <<104, 101, 108, 108, 111>>
\* "welcome"
tag_welcome == <<119, 101, 108, 99, 111, 109, 101>>
\* "null"
lit_null == <<110, 117, 108, 108>>
\* "true"
lit_true == <<116, 114, 117, 101>>
\* "false"
lit_false == <<102, 97, 108, 115, 101>>

\* Message::Hello(Hello { .. }) and Message::Welcome(Welcome { .. }).
Hello(protocol_version, request_id, world_id, client_name) ==
    [type |-> "hello", protocol_version |-> protocol_version,
     request_id |-> request_id, world_id |-> world_id, client_name |-> client_name]

Welcome(protocol_version, request_id, world_id, token_mint, motd, capabilities) ==
    [type |-> "welcome", protocol_version |-> protocol_version,
     request_id |-> request_id, world_id |-> world_id, token_mint |-> token_mint,
     motd |-> motd, capabilities |-> capabilities]

(***************************************************************************)
(* serde_json::to_vec: compact JSON, the tag first, then the fields in     *)
(* declaration order.                                                      *)
(***************************************************************************)
\* The lower-case hexadecimal digits.
HEX_DIGITS == <<48, 49, 50, 51, 52, 53, 54, 55, 56, 57, 97, 98, 99, 100, 101, 102>>

hex_byte(b) == <<HEX_DIGITS[(b \div 16) + 1], HEX_DIGITS[(b % 16) + 1]>>

RECURSIVE hex(_)
hex(bytes) == IF bytes = <<>> THEN <<>> ELSE hex_byte(bytes[1]) \o hex(Tail(bytes))

\* Uuid as text: 8-4-4-4-12 lower-case hexadecimal digits.
hyphenated(uuid) ==
    hex(SubSeq(uuid, 1, 4)) \o <<45>> \o hex(SubSeq(uuid, 5, 6)) \o <<45>>
    \o hex(SubSeq(uuid, 7, 8)) \o <<45>> \o hex(SubSeq(uuid, 9, 10)) \o <<45>>
    \o hex(SubSeq(uuid, 11, 16))

\* One byte of a string as JSON writes it.
escape_byte(c) ==
    CASE c = 34 -> <<92, 34>>
      [] c = 92 -> <<92, 92>>
      [] c = 8 -> <<92, 98>>
      [] c = 12 -> <<92, 102>>
      [] c = 10 -> <<92, 110>>
      [] c = 13 -> <<92, 114>>
      [] c = 9 -> <<92, 116>>
      [] c < 32 /\ c \notin {8, 9, 10, 12, 13} -> <<92, 117, 48, 48>> \o hex_byte(c)
      [] OTHER -> <<c>>

RECURSIVE escape(_)
escape(s) == IF s = <<>> THEN <<>> ELSE escape_byte(s[1]) \o escape(Tail(s))

write_str(s) == <<34>> \o escape(s) \o <<34>>

\* The texts of a list with commas between them.
RECURSIVE comma_separated(_)
comma_separated(texts) ==
    IF texts = <<>> THEN <<>>
    ELSE IF Len(texts) = 1 THEN texts[1]
    ELSE texts[1] \o <<44>> \o comma_separated(Tail(texts))

\* A value of one of the field types of the messages.
write_json(val, type) ==
    CASE type = "String" -> write_str(val)
      [] type = "Uuid" -> write_str(hyphenated(val))
      [] type = "Option<String>" -> IF val = None THEN lit_null ELSE write_str(val[1])
      [] type = "Option<Uuid>" ->
            IF val = None THEN lit_null ELSE write_str(hyphenated(val[1]))
      [] type = "Vec<String>" ->
            <<91>> \o comma_separated([i \in 1..Len(val) |-> write_str(val[i])]) \o <<93>>

write_member(key, text) == write_str(key) \o <<58>> \o text

\* The fields of the two messages: JSON key, type, the field in the model.
HelloFields ==
    <<<<key_protocol_version, "String", "protocol_version">>,
      <<key_request_id, "Uuid", "request_id">>,
      <<key_world_id, "Option<Uuid>", "world_id">>,
      <<key_client_name, "Option<String>", "client_name">>>>

WelcomeFields ==
    <<<<key_protocol_version, "String", "protocol_version">>,
      <<key_request_id, "Uuid", "request_id">>,
      <<key_world_id, "Uuid", "world_id">>,
      <<key_token_mint, "Option<String>", "token_mint">>,
      <<key_motd, "Option<String>", "motd">>,
      <<key_capabilities, "Vec<String>", "capabilities">>>>

FieldsOf(type) == IF type = "hello" THEN HelloFields ELSE WelcomeFields

TagOf(type) == IF type = "hello" THEN tag_hello ELSE tag_welcome

\* serde_json::to_vec(message)
to_vec(message) ==
    LET fields == FieldsOf(message.type) IN
    <<123>>
    \o comma_separated(
         <<write_member(key_type, write_str(TagOf(message.type)))>>
         \o [i \in 1..Len(fields) |->
               write_member(fields[i][1], write_json(message[fields[i][3]], fields[i][2]))])
    \o <<125>>


(***************************************************************************)
(* serde_json::from_slice.  A JSON value is null, a boolean, a number, a   *)
(* string, an array of values or an object, kept as the list of its        *)
(* members in the order of the text.  A reader returns the value and the   *)
(* text it left.                                                           *)
(***************************************************************************)
JsonNull == [t |-> "null"]
JsonBool(b) == [t |-> "bool", b |-> b]
JsonNumber(digits) == [t |-> "number", digits |-> digits]
JsonString(s) == [t |-> "string", s |-> s]
JsonArray(items) == [t |-> "array", items |-> items]
JsonObject(members) == [t |-> "object", members |-> members]

\* The least element of a non-empty set of numbers.
Least(S) == CHOOSE i \in S : \A j \in S : i <= j

\* Space, tab, line feed, carriage return.
WHITESPACE == {32, 9, 10, 13}

\* How many bytes at the front of a text satisfy a test, given the set of
\* positions that satisfy it.
LeadingRun(text, positions) ==
    Cardinality({k \in 1..Len(text) : \A m \in 1..k : m \in positions})

skip_ws(input) ==
    IF input = <<>> \/ input[1] \notin WHITESPACE THEN input
    ELSE SubSeq(input,
                LeadingRun(input, {i \in 1..Len(input) : input[i] \in WHITESPACE}) + 1,
                Len(input))

starts_with(input, text) ==
    Len(input) >= Len(text) /\ SubSeq(input, 1, Len(text)) = text

\* Position j holds a character that an odd number of backslashes precede.
escaped(input, j) ==
    Cardinality({k \in 1..(j - 2) : \A m \in 1..k : input[j - m] = 92}) % 2 = 1

\* The character a two-character escape stands for, -1 when there is none.
simple_escape(e) ==
    CASE e = 34 -> 34
      [] e = 92 -> 92
      [] e = 47 -> 47
      [] e = 98 -> 8
      [] e = 102 -> 12
      [] e = 110 -> 10
      [] e = 114 -> 13
      [] e = 116 -> 9
      [] OTHER -> -1

\* The value of a hexadecimal digit of either case, -1 for any other byte.
hex_value(c) ==
    IF c >= 48 /\ c <= 57 THEN c - 48
    ELSE IF c >= 97 /\ c <= 102 THEN c - 87
    ELSE IF c >= 65 /\ c <= 70 THEN c - 55
    ELSE -1

\* The code point of the four digits of a \u escape; -1 when they are not
\* four hexadecimal digits, or name a surrogate.
code_point(h) ==
    IF Len(h) # 4 \/ \E i \in 1..4 : hex_value(h[i]) = -1 THEN -1
    ELSE LET cp == ((hex_value(h[1]) * 16 + hex_value(h[2])) * 16
                    + hex_value(h[3])) * 16 + hex_value(h[4])
         IN IF cp >= 55296 /\ cp <= 57343 THEN -1 ELSE cp

encode_utf8(cp) ==
    IF cp < 128 THEN <<cp>>
    ELSE IF cp < 2048 THEN <<192 + (cp \div 64), 128 + (cp % 64)>>
    ELSE <<224 + (cp \div 4096), 128 + ((cp \div 64) % 64), 128 + (cp % 64)>>

\* Bytes in front of what was read after them.
unescaped_after(bytes, others) ==
    IF others.ok THEN Read(bytes \o others.val, <<>>) ELSE Failed

\* The text between the quotes, its escapes resolved.  A control character
\* must be escaped.
RECURSIVE unescape(_)
unescape(body) ==
    IF \A i \in 1..Len(body) : body[i] >= 32 /\ body[i] # 92 THEN Read(body, <<>>)
    ELSE IF body[1] < 32 THEN Failed
    ELSE IF body[1] # 92
    THEN unescaped_after(<<body[1]>>, unescape(Tail(body)))
    ELSE IF Len(body) < 2 THEN Failed
    ELSE IF simple_escape(body[2]) >= 0
    THEN unescaped_after(<<simple_escape(body[2])>>, unescape(SubSeq(body, 3, Len(body))))
    ELSE IF body[2] = 117 /\ code_point(SubSeq(body, 3, 6)) >= 0
    THEN unescaped_after(encode_utf8(code_point(SubSeq(body, 3, 6))),
                         unescape(SubSeq(body, 7, Len(body))))
    ELSE Failed

\* A string is UTF-8.
string_from(text, rest) ==
    IF text.ok /\ valid_utf8(text.val) THEN Read(text.val, rest) ELSE Failed

\* A string, from its opening quote to the first quote no backslash escapes.
parse_string(input) ==
    LET closing == {j \in 2..Len(input) : input[j] = 34 /\ ~escaped(input, j)} IN
    IF closing = {} THEN Failed
    ELSE string_from(unescape(SubSeq(input, 2, Least(closing) - 1)),
                     SubSeq(input, Least(closing) + 1, Len(input)))

string_value(s) == IF s.ok THEN Read(JsonString(s.val), s.rest) ELSE Failed

\* An integer: an optional minus sign, then 0 or digits that do not start
\* with 0.  (Fractions and exponents are not read.)
parse_number(input) ==
    LET digits == IF input[1] = 45 THEN Tail(input) ELSE input
        n == IF digits # <<>> /\ digits[1] = 48 THEN 1
             ELSE LeadingRun(digits, {i \in 1..Len(digits) :
                                         digits[i] >= 48 /\ digits[i] <= 57})
    IN
    IF n = 0 THEN Failed
    ELSE Read(JsonNumber(SubSeq(input, 1, Len(input) - Len(digits) + n)),
              SubSeq(digits, n + 1, Len(digits)))

\* null, true, false or a number.
parse_literal(input) ==
    IF starts_with(input, lit_null) THEN Read(JsonNull, SubSeq(input, 5, Len(input)))
    ELSE IF starts_with(input, lit_true)
    THEN Read(JsonBool(TRUE), SubSeq(input, 5, Len(input)))
    ELSE IF starts_with(input, lit_false)
    THEN Read(JsonBool(FALSE), SubSeq(input, 6, Len(input)))
    ELSE parse_number(input)

RECURSIVE parse_value(_)
RECURSIVE parse_elements(_, _)
RECURSIVE after_element(_, _)
RECURSIVE element_separator(_, _)
RECURSIVE parse_members(_, _)
RECURSIVE member_key(_, _)
RECURSIVE after_key(_, _)
RECURSIVE member_colon(_, _, _)
RECURSIVE after_member(_, _, _)
RECURSIVE member_separator(_, _)

\* The value at the front of a text that does not start with whitespace.
value_at(input) ==
    IF input = <<>> THEN Failed
    ELSE IF input[1] = 34 THEN string_value(parse_string(input))
    ELSE IF input[1] = 91 THEN parse_elements(skip_ws(Tail(input)), <<>>)
    ELSE IF input[1] = 123 THEN parse_members(skip_ws(Tail(input)), <<>>)
    ELSE parse_literal(input)

parse_value(input) == value_at(skip_ws(input))

\* After '[': the closing bracket of an empty array, or the first element.
parse_elements(input, items) ==
    IF input # <<>> /\ input[1] = 93 THEN Read(JsonArray(items), Tail(input))
    ELSE after_element(parse_value(input), items)

after_element(v, items) ==
    IF v.ok THEN element_separator(skip_ws(v.rest), Append(items, v.val)) ELSE Failed

\* After an element: a comma and the next element, or the closing bracket.
element_separator(input, items) ==
    IF input = <<>> THEN Failed
    ELSE IF input[1] = 44 THEN after_element(parse_value(Tail(input)), items)
    ELSE IF input[1] = 93 THEN Read(JsonArray(items), Tail(input))
    ELSE Failed

\* After '{': the closing brace of an empty object, or the first member.
parse_members(input, members) ==
    IF input # <<>> /\ input[1] = 125 THEN Read(JsonObject(members), Tail(input))
    ELSE member_key(input, members)

member_key(input, members) ==
    IF input = <<>> \/ input[1] # 34 THEN Failed
    ELSE after_key(parse_string(input), members)

after_key(k, members) ==
    IF k.ok THEN member_colon(k.val, skip_ws(k.rest), members) ELSE Failed

member_colon(key, input, members) ==
    IF input = <<>> \/ input[1] # 58 THEN Failed
    ELSE after_member(key, parse_value(Tail(input)), members)

after_member(key, v, members) ==
    IF v.ok THEN member_separator(skip_ws(v.rest), Append(members, <<key, v.val>>))
    ELSE Failed

\* After a member: a comma and the next member, or the closing brace.
member_separator(input, members) ==
    IF input = <<>> THEN Failed
    ELSE IF input[1] = 44 THEN member_key(skip_ws(Tail(input)), members)
    ELSE IF input[1] = 125 THEN Read(JsonObject(members), Tail(input))
    ELSE Failed

\* One value and after it nothing but whitespace.
whole(v) == IF v.ok /\ skip_ws(v.rest) = <<>> THEN v ELSE Failed

\* serde_json::from_slice::<Value>
parse_json(text) == whole(parse_value(text))

(***************************************************************************)
(* The derived Deserialize of Message: an object whose "type" names the    *)
(* variant and whose other members are the variant's fields.  A field that *)
(* the object lacks takes its default when it has one; a member that is no *)
(* field is ignored; a field given twice is an error.                      *)
(***************************************************************************)
\* Where the hyphens of the 8-4-4-4-12 form stand.
HyphenAt == {9, 14, 19, 24}

\* The position of the i-th digit in the hyphenated form.
DigitAt(i) ==
    i + (IF i <= 8 THEN 0 ELSE IF i <= 12 THEN 1 ELSE IF i <= 16 THEN 2
         ELSE IF i <= 20 THEN 3 ELSE 4)

\* Uuid::parse_str, for the hyphenated and the simple form.
parse_uuid(s) ==
    LET digits == IF Len(s) = 36 /\ \A i \in HyphenAt : s[i] = 45
                  THEN [i \in 1..32 |-> s[DigitAt(i)]]
                  ELSE s
    IN
    IF Len(digits) # 32 \/ \E i \in 1..32 : hex_value(digits[i]) = -1 THEN Failed
    ELSE Read([i \in 1..16 |->
                 hex_value(digits[2 * i - 1]) * 16 + hex_value(digits[2 * i])], <<>>)

\* The strings of an array of strings.
strings_of(v) ==
    IF v.t = "array" /\ \A i \in 1..Len(v.items) : v.items[i].t = "string"
    THEN Read([i \in 1..Len(v.items) |-> v.items[i].s], <<>>)
    ELSE Failed

\* A value as a field of the given type.
from_json(v, type) ==
    CASE type = "String" -> IF v.t = "string" THEN Read(v.s, <<>>) ELSE Failed
      [] type = "Uuid" -> IF v.t = "string" THEN parse_uuid(v.s) ELSE Failed
      [] type = "Option<String>" ->
            IF v.t = "null" THEN Read(None, <<>>)
            ELSE IF v.t = "string" THEN Read(Some(v.s), <<>>) ELSE Failed
      [] type = "Option<Uuid>" ->
            IF v.t = "null" THEN Read(None, <<>>)
            ELSE IF v.t = "string" THEN read_some(parse_uuid(v.s)) ELSE Failed
      [] type = "Vec<String>" -> strings_of(v)

\* #[serde(default)]: None for an Option, no element for a Vec; the other
\* fields are required.
missing_field(type) ==
    CASE type \in {"Option<String>", "Option<Uuid>"} -> Read(None, <<>>)
      [] type = "Vec<String>" -> Read(<<>>, <<>>)
      [] OTHER -> Failed

\* The members of an object that carry a key.
members_named(members, key) == {i \in 1..Len(members) : members[i][1] = key}

deserialize_field(members, field) ==
    LET hits == members_named(members, field[1]) IN
    IF hits = {} THEN missing_field(field[2])
    ELSE IF Cardinality(hits) > 1 THEN Failed
    ELSE from_json(members[Least(hits)][2], field[2])

RECURSIVE deserialize_fields(_, _)
RECURSIVE deserialize_next(_, _, _)
deserialize_next(first, members, fields) ==
    IF first.ok THEN read_after(first.val, deserialize_fields(members, fields))
    ELSE Failed

deserialize_fields(members, fields) ==
    IF fields = <<>> THEN Read(<<>>, <<>>)
    ELSE deserialize_next(deserialize_field(members, Head(fields)), members, Tail(fields))

\* The variant a tag names.
variant_of(tag) ==
    IF ~tag.ok THEN "none"
    ELSE IF tag.val = tag_hello THEN "hello"
    ELSE IF tag.val = tag_welcome THEN "welcome"
    ELSE "none"

\* The message of a variant from the values of its fields.
message_from(variant, v) ==
    IF ~v.ok THEN Failed
    ELSE IF variant = "hello"
    THEN Read(Hello(v.val[1], v.val[2], v.val[3], v.val[4]), <<>>)
    ELSE Read(Welcome(v.val[1], v.val[2], v.val[3], v.val[4], v.val[5], v.val[6]), <<>>)

deserialize_variant(variant, members) ==
    IF variant = "none" THEN Failed
    ELSE message_from(variant, deserialize_fields(members, FieldsOf(variant)))

deserialize(value) ==
    IF value.t # "object" THEN Failed
    ELSE deserialize_variant(
            variant_of(deserialize_field(value.members, <<key_type, "String">>)),
            value.members)

message_of(v) == IF v.ok THEN deserialize(v.val) ELSE Failed

\* serde_json::from_slice::<Message>
from_slice(text) == message_of(parse_json(text))


(***************************************************************************)
(* wire.rs: a frame is the length of the payload as four big-endian bytes, *)
(* then the payload, the JSON of one message.                              *)
(***************************************************************************)
MAX_FRAME_LEN == 4 * 1024 * 1024

\* How many bytes a source still holds.
available(stream) == Len(stream.head) + stream.pad

\* read_exact: the first n bytes and the source after them; a source that
\* ends before n bytes fails (UnexpectedEof).
read_exact(stream, n) ==
    IF available(stream) < n THEN Failed
    ELSE IF n <= Len(stream.head)
    THEN Read(Stream(SubSeq(stream.head, 1, n), 0),
              Stream(SubSeq(stream.head, n + 1, Len(stream.head)), stream.pad))
    ELSE Read(Stream(stream.head, n - Len(stream.head)),
              Stream(<<>>, available(stream) - n))

\* A short buffer, byte by byte.
bytes_of(buffer) == buffer.head \o Rep(32, buffer.pad)

\* A payload as the JSON reader sees it: a run of spaces after the text
\* reads as one space does.
text_of(payload) == payload.head \o (IF payload.pad > 0 THEN <<32>> ELSE <<>>)

\* u32::from_be_bytes.  The value is hi * 2^16 + lo; it is kept as its two
\* halves because a u32 can exceed the largest integer of the checker.
u32_from_be_bytes(b) == [hi |-> b[1] * 256 + b[2], lo |-> b[3] * 256 + b[4]]

\* len as usize, for a len within MAX_FRAME_LEN.
as_usize(len) == len.hi * 65536 + len.lo

\* u32::to_be_bytes of a payload length.  Every length the model can hold
\* is below u32::MAX, so u32::try_from never falls back to it.
u32_to_be_bytes(n) ==
    <<n \div 16777216, (n \div 65536) % 256, (n \div 256) % 256, n % 256>>

\* A variant that turns away a frame of exactly MAX_FRAME_LEN bytes as well.
frame_length_rejected_at_limit(len) ==
    \/ len.hi = 0 /\ len.lo = 0
    \/ len.hi >= MAX_FRAME_LEN \div 65536

\* len == 0 || len > MAX_FRAME_LEN
frame_length_rejected(len) ==
    \/ len.hi = 0 /\ len.lo = 0
    \/ len.hi > MAX_FRAME_LEN \div 65536
    \/ len.hi = MAX_FRAME_LEN \div 65536 /\ len.lo > MAX_FRAME_LEN % 65536

encode_frame(message) == u32_to_be_bytes(Len(to_vec(message))) \o to_vec(message)

\* What read_message returns, with the length it decoded, the size of the
\* payload buffer it allocated and the source as it left it.
Outcome(res, msg, len, allocated, rest) ==
    [res |-> res, msg |-> msg, len |-> len, allocated |-> allocated, rest |-> rest]

NoLen == [hi |-> 0, lo |-> 0]

\* Lines 38-40: the payload as JSON and as a Message.
decoded(len, message, rest) ==
    IF message.ok THEN Outcome("Ok", message.val, len, as_usize(len), rest)
    ELSE Outcome("Json", NoMessage, len, as_usize(len), rest)

\* Lines 34-35: the payload buffer and the bytes read into it.
after_payload(len, payload) ==
    IF ~payload.ok THEN Outcome("Io", NoMessage, len, as_usize(len), EmptyStream)
    ELSE decoded(len, from_slice(text_of(payload.val)), payload.rest)

\* Lines 29-32: the length and its test.
after_length(len, reader) ==
    IF frame_length_rejected(len) THEN Outcome("FrameLength", NoMessage, len, 0, reader)
    ELSE after_payload(len, read_exact(reader, as_usize(len)))

\* Lines 27-28: the four bytes of the length.
after_prefix(prefix, reader) ==
    IF ~prefix.ok THEN Outcome("Io", NoMessage, NoLen, 0, EmptyStream)
    ELSE after_length(u32_from_be_bytes(bytes_of(prefix.val)), prefix.rest)

read_message(reader) == after_prefix(read_exact(reader, 4), reader)

(***************************************************************************)
(* The framer on its own: a writer frames a message, or another peer has   *)
(* written bytes of its own, and a reader reads one message from what was  *)
(* written.                                                                *)
(***************************************************************************)
\* Two request ids, the second with digits of every kind.
RequestIds ==
    {WorldIdBytes(World1),
     <<171, 205, 239, 1, 35, 69, 103, 137, 0, 255, 16, 32, 48, 64, 80, 96>>}

\* "owp-client-cli"
ClientName ==
    <<111, 119, 112, 45, 99, 108, 105, 101, 110, 116, 45, 99, 108, 105>>
\* a, a quote, a backslash, a line feed, U+0001, U+00E9, a slash
OddName ==
    <<97, 34, 92, 10, 1, 195, 169, 47>>
\* a mint address
MintText ==
    <<83, 111, 49, 49, 49, 49, 49, 49, 49, 49, 49, 49, 49, 49, 49, 49, 49,
    49, 49, 49, 49, 49, 49, 49, 49, 49, 49, 49, 49, 49, 49, 49, 49, 49, 49,
    49, 49, 49, 49, 49, 49, 49, 50>>
\* "World id mismatch"
MismatchMotd ==
    <<87, 111, 114, 108, 100, 32, 105, 100, 32, 109, 105, 115, 109, 97, 116,
    99, 104>>
\* "Welcome to OWP (handshake-only server)"
WelcomeMotd ==
    <<87, 101, 108, 99, 111, 109, 101, 32, 116, 111, 32, 79, 87, 80, 32, 40,
    104, 97, 110, 100, 115, 104, 97, 107, 101, 45, 111, 110, 108, 121, 32,
    115, 101, 114, 118, 101, 114, 41>>
\* "handshake"
cap_handshake ==
    <<104, 97, 110, 100, 115, 104, 97, 107, 101>>
\* "chat"
cap_chat ==
    <<99, 104, 97, 116>>
\* A Hello over several lines, its members in another order, with a member that is no field, an escaped U+00E9 and a request id in the simple upper-case form.
PrettyText ==
    <<123, 10, 32, 32, 34, 112, 114, 111, 116, 111, 99, 111, 108, 95, 118,
    101, 114, 115, 105, 111, 110, 34, 58, 32, 34, 48, 46, 49, 34, 44, 10,
    32, 32, 34, 99, 108, 105, 101, 110, 116, 95, 110, 97, 109, 101, 34, 58,
    32, 34, 99, 97, 102, 92, 117, 48, 48, 101, 57, 34, 44, 10, 32, 32, 34,
    114, 101, 113, 117, 101, 115, 116, 95, 105, 100, 34, 58, 32, 34, 48, 55,
    48, 55, 48, 55, 48, 55, 48, 55, 48, 55, 48, 55, 48, 55, 48, 55, 48, 55,
    48, 55, 48, 55, 48, 55, 48, 55, 48, 55, 48, 55, 34, 44, 10, 32, 32, 34,
    116, 121, 112, 101, 34, 58, 32, 34, 104, 101, 108, 108, 111, 34, 44, 10,
    32, 32, 34, 101, 120, 116, 114, 97, 34, 58, 32, 91, 49, 44, 32, 116,
    114, 117, 101, 44, 32, 123, 34, 97, 34, 58, 32, 110, 117, 108, 108, 125,
    93, 10, 125, 10>>

PrettyHello ==
    Hello(OWP_PROTOCOL_VERSION, WorldIdBytes(World1), None, Some(<<99, 97, 102, 195, 169>>))

Hellos ==
    {Hello(OWP_PROTOCOL_VERSION, r, w, n) :
        r \in RequestIds,
        w \in {None, Some(WorldIdBytes(World1)), Some(WorldIdBytes(World2))},
        n \in {None, Some(ClientName), Some(OddName)}}

Welcomes ==
    {Welcome(OWP_PROTOCOL_VERSION, r, WorldIdBytes(World1), t, m, c) :
        r \in RequestIds,
        t \in {None, Some(MintText)},
        m \in {None, Some(WelcomeMotd)},
        c \in {<<>>, <<cap_handshake>>, <<cap_handshake, cap_chat>>}}

Messages == Hellos \cup Welcomes

SampleHello == Hello(OWP_PROTOCOL_VERSION, WorldIdBytes(World1), None, Some(ClientName))

\* A frame whose length field is given: the four bytes, the text, and then
\* as many spaces as the length asks for beyond the text, less `short`.
Framed(len, text, short) ==
    Stream(u32_to_be_bytes(len) \o text,
           IF len - short > Len(text) THEN len - short - Len(text) ELSE 0)

\* What a peer that does not use encode_frame may have written.
ForeignStreams ==
    \* lengths around the two ends of the accepted range
    {Framed(len, to_vec(SampleHello), 0) :
        len \in {0, Len(to_vec(SampleHello)) - 1, Len(to_vec(SampleHello)) + 1,
                 MAX_FRAME_LEN - 1, MAX_FRAME_LEN, MAX_FRAME_LEN + 1,
                 2 * MAX_FRAME_LEN, 16777216}}
    \* a length with its top bit set, and the largest one
    \cup {Stream(prefix \o to_vec(SampleHello), 0) :
            prefix \in {<<128, 0, 0, 0>>, <<255, 255, 255, 255>>, <<0, 0, 0, 0>>}}
    \* a source that ends inside the length, or inside the payload
    \cup {Stream(<<0, 0, 0>>, 0), Stream(<<0, 0>>, 1),
          Framed(MAX_FRAME_LEN, to_vec(SampleHello), 1),
          Stream(SubSeq(encode_frame(SampleHello), 1, 40), 0)}
    \* payloads that are no JSON, or JSON that is no message
    \cup {Stream(u32_to_be_bytes(Len(text)) \o text, 0) :
            text \in {<<123>>, <<55>>, <<123, 125>>, <<34, 255, 34>>, lit_null,
                      <<91>> \o to_vec(SampleHello) \o <<93>>}}
    \* two frames, one after the other
    \cup {Stream(encode_frame(SampleHello) \o encode_frame(m), 0) :
            m \in {SampleHello, PrettyHello}}
    \cup {Stream(u32_to_be_bytes(Len(PrettyText)) \o PrettyText, 0)}

InitWire ==
    /\ IdleLedger
    /\ NoStrings
    /\ wrote = NoMessage
    /\ inbound \in {EmptyStream} \cup ForeignStreams
    /\ got = NoRead
    /\ NoGame
    /\ NoAdmin

\* write_message(&mut writer, &message)
WriteMessage ==
    /\ wrote = NoMessage
    /\ inbound = EmptyStream
    /\ got = NoRead
    /\ \E message \in Messages :
         /\ wrote' = message
         /\ inbound' = Stream(encode_frame(message), 0)
    /\ UNCHANGED <<ledger, codec, strings, got, game, admin>>

\* read_message(&mut reader)
ReadMessage ==
    /\ got = NoRead
    /\ inbound # EmptyStream
    /\ got' = [read |-> read_message(inbound), source |-> inbound]
    /\ inbound' = read_message(inbound).rest
    /\ UNCHANGED <<ledger, codec, strings, wrote, game, admin>>

NextWire == WriteMessage \/ ReadMessage

SpecWire == InitWire /\ [][NextWire]_vars

\* The length field of a source of four bytes or more is within the
\* accepted range 1..MAX_FRAME_LEN.
LengthInRange(stream) ==
    LET prefix == SubSeq(stream.head \o <<32, 32, 32, 32>>, 1, 4) IN
    /\ prefix[1] = 0
    /\ prefix[2] * 65536 + prefix[3] * 256 + prefix[4] >= 1
    /\ prefix[2] * 65536 + prefix[3] * 256 + prefix[4] <= 4194304

\* C29: the reader returns a message only for a length field between 1 and
\* 4 MiB inclusive and never turns such a length away as a FrameLength
\* error; a length field of 0 or above 4 MiB is a FrameLength error after
\* which exactly the four bytes of the length have been consumed and no
\* payload buffer was allocated; and the frame encode_frame makes for a
\* message whose JSON is within the range is read back as that message,
\* with nothing left in the source.
C29_FrameLengthGate ==
    got # NoRead =>
        LET consumed == available(got.source) - available(got.read.rest) IN
        /\ got.read.res = "Ok" => available(got.source) >= 4 /\ LengthInRange(got.source)
        /\ (available(got.source) >= 4 /\ LengthInRange(got.source))
              => got.read.res # "FrameLength"
        /\ (available(got.source) >= 4 /\ ~LengthInRange(got.source))
              => /\ got.read.res = "FrameLength"
                 /\ consumed = 4
                 /\ got.read.allocated = 0
        /\ (wrote # NoMessage /\ Len(to_vec(wrote)) \in 1..MAX_FRAME_LEN)
              => /\ got.read.res = "Ok"
                 /\ got.read.msg = wrote
                 /\ got.read.rest = EmptyStream

\* A Hello whose client name needs escaping has been framed and read back.
C29_Witness ==
    /\ wrote \in Hellos
    /\ wrote.client_name = Some(OddName)
    /\ got.read.res = "Ok"
    /\ got.read.msg = wrote


(***************************************************************************)
(* The game server's handshake (owp-server tcp_game.rs) and the client     *)
(* that opens it (owp-client-cli main.rs).  `inbound` is what the peer     *)
(* wrote towards the server and `got` what the server read from it;        *)
(* `outbound` is every byte the server wrote on the connection and `reply` *)
(* what the client read from that.                                         *)
(***************************************************************************)

\* The world `serve` was started for.
ServedWorld == WorldIdBytes(World1)

\* manifest.token: the token info set_token_info writes.
WorldTokenInfo(mint) == [mint |-> mint]

\* What read_manifest returns for the served world.
Unreadable == [res |-> "Err"]
Manifest(token) == [res |-> "Ok", token |-> token]

\* manifest.token.as_ref().map(|t| t.mint.clone())
token_mint_of(m) == IF m.token = None THEN None ELSE Some(m.token[1].mint)

NoWelcome == [res |-> "Err"]
Reply(welcome) == [res |-> "Ok", welcome |-> welcome]

\* The reply as it would be if the requested world were never compared.
welcome_ignoring_mismatch(request_id, requested_world, world_id, store) ==
    IF store.res # "Ok" THEN NoWelcome
    ELSE Reply(Welcome(OWP_PROTOCOL_VERSION, request_id, world_id,
                       token_mint_of(store), Some(WelcomeMotd), <<cap_handshake>>))

\* handle_connection once the Hello is taken apart: the Welcome it writes,
\* or the error of read_manifest.
welcome_for(request_id, requested_world, world_id, store) ==
    IF requested_world # None /\ requested_world[1] # world_id
    THEN Reply(Welcome(OWP_PROTOCOL_VERSION, request_id, world_id,
                       None, Some(MismatchMotd), <<>>))
    ELSE IF store.res # "Ok" THEN NoWelcome
    ELSE Reply(Welcome(OWP_PROTOCOL_VERSION, request_id, world_id,
                       token_mint_of(store), Some(WelcomeMotd), <<cap_handshake>>))

Closed(res) == [pc |-> "closed", res |-> res]

\* `serve` has read the manifest once and a peer has just been accepted.
InitGame ==
    /\ IdleLedger
    /\ NoStrings
    /\ NoAdmin
    /\ NoFraming
    /\ manifest \in {Manifest(None), Manifest(Some(WorldTokenInfo(MintText)))}
    /\ conn = [pc |-> "accepted"]
    /\ outbound = EmptyStream
    /\ reply = NoRead

\* owp-client-cli: write_message(&mut stream, &hello)
ClientHello ==
    /\ conn.pc = "accepted"
    /\ \E request_id \in RequestIds, world_id \in {World1, World2} :
         LET hello == Hello(OWP_PROTOCOL_VERSION, request_id,
                            Some(WorldIdBytes(world_id)), Some(ClientName)) IN
         /\ wrote' = hello
         /\ inbound' = Stream(encode_frame(hello), 0)
    /\ conn' = [pc |-> "read hello"]
    /\ UNCHANGED <<ledger, codec, strings, got, manifest, outbound, reply, admin>>

\* Any other peer: a message of either kind, bytes of its own making, or
\* nothing at all before it shuts its side down.
PeerWrites ==
    /\ conn.pc = "accepted"
    /\ \/ \E message \in Messages :
            /\ wrote' = message
            /\ inbound' = Stream(encode_frame(message), 0)
       \/ /\ wrote' = NoMessage
          /\ inbound' \in {EmptyStream} \cup ForeignStreams
    /\ conn' = [pc |-> "read hello"]
    /\ UNCHANGED <<ledger, codec, strings, got, manifest, outbound, reply, admin>>

\* handle_connection up to the match on the first message
ReadHello ==
    /\ conn.pc = "read hello"
    /\ LET r == read_message(inbound) IN
       /\ got' = [read |-> r, source |-> inbound]
       /\ inbound' = r.rest
       /\ conn' = IF r.res # "Ok" THEN Closed("Err")
                  ELSE IF r.msg.type # "hello" THEN Closed("Ok")
                  ELSE [pc |-> "reply",
                        request_id |-> r.msg.request_id,
                        requested_world |-> r.msg.world_id]
    /\ UNCHANGED <<ledger, codec, strings, wrote, manifest, outbound, reply, admin>>

\* handle_connection from the world id comparison to its end; write_message
\* fails if the peer is gone.
SendWelcome ==
    /\ conn.pc = "reply"
    /\ LET w == welcome_for(conn.request_id, conn.requested_world, ServedWorld, manifest) IN
       IF w.res # "Ok"
       THEN conn' = Closed("Err") /\ outbound' = outbound
       ELSE \/ /\ outbound' = Stream(outbound.head \o encode_frame(w.welcome), 0)
               /\ conn' = Closed("Ok")
            \/ /\ outbound' = outbound
               /\ conn' = Closed("Err")
    /\ UNCHANGED <<ledger, codec, strings, framing, manifest, reply, admin>>

\* owp-client-cli: read_message(&mut stream), once the server is done
ClientRead ==
    /\ conn.pc = "closed"
    /\ reply = NoRead
    /\ reply' = [read |-> read_message(outbound), source |-> outbound]
    /\ UNCHANGED <<ledger, codec, strings, framing, manifest, conn, outbound, admin>>

\* set_token_info, called by the admin API while the server runs
SetTokenInfo ==
    /\ manifest.res = "Ok"
    /\ manifest.token = None
    /\ manifest' = Manifest(Some(WorldTokenInfo(MintText)))
    /\ UNCHANGED <<ledger, codec, strings, framing, conn, outbound, reply, admin>>

\* The manifest file is removed or no longer parses.
LoseManifest ==
    /\ manifest.res = "Ok"
    /\ manifest' = Unreadable
    /\ UNCHANGED <<ledger, codec, strings, framing, conn, outbound, reply, admin>>

NextGame ==
    \/ ClientHello
    \/ PeerWrites
    \/ ReadHello
    \/ SendWelcome
    \/ ClientRead
    \/ SetTokenInfo
    \/ LoseManifest

SpecGame == InitGame /\ [][NextGame]_vars

\* The server has read a Hello as the first message of the connection.
HelloReceived == got.read.res = "Ok" /\ got.read.msg.type = "hello"

\* C28: whatever the server has written on a connection is exactly one
\* frame holding a Welcome, written only after the server read a Hello; the
\* Welcome echoes the Hello's request_id and carries the served world_id;
\* if the Hello names another world the Welcome has no capabilities and no
\* token_mint; and once the server has read a first message that is not a
\* Hello, the connection is closed and nothing was written.
C28_Handshake ==
    LET sent == read_message(outbound) IN
    /\ outbound # EmptyStream =>
         /\ sent.res = "Ok"
         /\ sent.msg.type = "welcome"
         /\ sent.rest = EmptyStream
         /\ HelloReceived
         /\ sent.msg.request_id = got.read.msg.request_id
         /\ sent.msg.world_id = ServedWorld
         /\ (got.read.msg.world_id # None /\ got.read.msg.world_id # Some(ServedWorld))
               => sent.msg.capabilities = <<>> /\ sent.msg.token_mint = None
    /\ (got.read.res = "Ok" /\ got.read.msg.type # "hello")
         => conn = Closed("Ok") /\ outbound = EmptyStream
    /\ (got # NoRead /\ ~HelloReceived) => conn.pc = "closed" /\ outbound = EmptyStream

\* The client asked for another world and has read the server's Welcome.
C28_Witness ==
    /\ HelloReceived
    /\ got.read.msg.world_id = Some(WorldIdBytes(World2))
    /\ reply.read.res = "Ok"
    /\ reply.read.msg.type = "welcome"
    /\ reply.read.msg.request_id = wrote.request_id
    /\ reply.read.msg.motd = Some(MismatchMotd)


(***************************************************************************)
(* The admin HTTP API (owp-server web_admin.rs): its router, the auth      *)
(* check every handler but `health` starts with, and what a handler can    *)
(* answer once the check has passed.  Header values and tokens are bytes.  *)
(***************************************************************************)

OK == 200
NO_CONTENT == 204
BAD_REQUEST == 400
UNAUTHORIZED == 401
FORBIDDEN == 403
NOT_FOUND == 404
PRECONDITION_FAILED == 412
UNSUPPORTED_MEDIA_TYPE == 415
UNPROCESSABLE_ENTITY == 422
INTERNAL_SERVER_ERROR == 500

\* "Bearer "
BearerPrefix == <<66, 101, 97, 114, 101, 114, 32>>
\* Two tokens an operator may configure, one a prefix of the other.
AdminToken == <<116, 111, 107>>
LongerToken == <<116, 111, 107, 50>>

Disabled == [mode |-> "Disabled"]
BearerToken(expected) == [mode |-> "BearerToken", expected |-> expected]

\* headers.get(AUTHORIZATION): the first value under that name
get_authorization(headers) == IF headers = <<>> THEN None ELSE Some(headers[1])

\* HeaderValue::to_str: visible ASCII and tabs only
to_str(value) ==
    IF \A i \in 1..Len(value) : (value[i] >= 32 /\ value[i] < 127) \/ value[i] = 9
    THEN Some(value) ELSE None

\* str::strip_prefix
strip_prefix(text, prefix) ==
    IF Len(text) >= Len(prefix) /\ SubSeq(text, 1, Len(prefix)) = prefix
    THEN Some(SubSeq(text, Len(prefix) + 1, Len(text)))
    ELSE None

Passed == [res |-> "Ok"]
Denied(status) == [res |-> "Err", status |-> status]

\* The check as it would be if a token only had to start with the expected one.
require_auth_by_prefix(headers, mode) ==
    IF mode.mode = "Disabled" THEN Passed
    ELSE IF get_authorization(headers) = None THEN Denied(UNAUTHORIZED)
    ELSE IF to_str(get_authorization(headers)[1]) = None THEN Denied(UNAUTHORIZED)
    ELSE IF strip_prefix(get_authorization(headers)[1], BearerPrefix) = None
    THEN Denied(UNAUTHORIZED)
    ELSE IF strip_prefix(strip_prefix(get_authorization(headers)[1], BearerPrefix)[1],
                         mode.expected) = None
    THEN Denied(FORBIDDEN)
    ELSE Passed

require_auth(headers, mode) ==
    IF mode.mode = "Disabled" THEN Passed
    ELSE IF get_authorization(headers) = None THEN Denied(UNAUTHORIZED)
    ELSE IF to_str(get_authorization(headers)[1]) = None THEN Denied(UNAUTHORIZED)
    ELSE IF strip_prefix(get_authorization(headers)[1], BearerPrefix) = None
    THEN Denied(UNAUTHORIZED)
    ELSE IF strip_prefix(get_authorization(headers)[1], BearerPrefix)[1] # mode.expected
    THEN Denied(FORBIDDEN)
    ELSE Passed

\* The routes of `serve`: the handler of a method and a path, the extractor
\* among its arguments that can turn a request away, whether it begins
\* with require_auth, and what it can answer after that: a status, and
\* whether the world store or a collaborator was used on the way to it.
Answer(status, touched) == [status |-> status, touched |-> touched]
Route(handler, method, path, extractor, guarded, answers) ==
    [handler |-> handler, method |-> method, path |-> path,
     extractor |-> extractor, guarded |-> guarded, answers |-> answers]

Routes ==
    {Route("health", "GET", "/health", "None", FALSE,
           {Answer(OK, FALSE)}),
     Route("list_worlds", "GET", "/worlds", "None", TRUE,
           {Answer(OK, TRUE), Answer(INTERNAL_SERVER_ERROR, TRUE)}),
     Route("create_world", "POST", "/worlds", "Json", TRUE,
           {Answer(OK, TRUE), Answer(INTERNAL_SERVER_ERROR, TRUE)}),
     Route("get_manifest", "GET", "/worlds/:world_id/manifest", "None", TRUE,
           {Answer(BAD_REQUEST, FALSE), Answer(NOT_FOUND, TRUE), Answer(INTERNAL_SERVER_ERROR, TRUE), Answer(OK, TRUE)}),
     Route("publish_result", "POST", "/worlds/:world_id/publish-result", "Json", TRUE,
           {Answer(BAD_REQUEST, FALSE), Answer(NOT_FOUND, TRUE), Answer(INTERNAL_SERVER_ERROR, TRUE), Answer(OK, TRUE)}),
     Route("assistant_status", "GET", "/assistant/status", "None", TRUE,
           {Answer(OK, TRUE), Answer(INTERNAL_SERVER_ERROR, TRUE)}),
     Route("get_assistant_config", "GET", "/assistant/config", "None", TRUE,
           {Answer(OK, TRUE), Answer(INTERNAL_SERVER_ERROR, TRUE)}),
     Route("set_assistant_config", "POST", "/assistant/config", "Json", TRUE,
           {Answer(INTERNAL_SERVER_ERROR, TRUE), Answer(BAD_REQUEST, TRUE), Answer(OK, TRUE)}),
     Route("set_provider", "POST", "/assistant/provider", "Json", TRUE,
           {Answer(BAD_REQUEST, FALSE), Answer(INTERNAL_SERVER_ERROR, TRUE), Answer(NO_CONTENT, TRUE)}),
     Route("assistant_chat", "POST", "/assistant/chat", "Json", TRUE,
           {Answer(INTERNAL_SERVER_ERROR, TRUE), Answer(PRECONDITION_FAILED, TRUE), Answer(OK, TRUE)}),
     Route("get_avatar", "GET", "/avatar", "None", TRUE,
           {Answer(OK, TRUE), Answer(INTERNAL_SERVER_ERROR, TRUE)}),
     Route("generate_avatar", "POST", "/avatar/generate", "Json", TRUE,
           {Answer(INTERNAL_SERVER_ERROR, TRUE), Answer(PRECONDITION_FAILED, TRUE), Answer(OK, TRUE)}),
     Route("get_avatar_mesh", "GET", "/avatar/mesh", "Query", TRUE,
           {Answer(NOT_FOUND, TRUE), Answer(INTERNAL_SERVER_ERROR, TRUE), Answer(OK, TRUE)}),
     Route("generate_avatar_mesh", "POST", "/avatar/mesh/generate", "Json", TRUE,
           {Answer(INTERNAL_SERVER_ERROR, TRUE), Answer(PRECONDITION_FAILED, TRUE), Answer(OK, TRUE)}),
     Route("generate_world_plan", "POST", "/world/plan", "Json", TRUE,
           {Answer(INTERNAL_SERVER_ERROR, TRUE), Answer(PRECONDITION_FAILED, TRUE), Answer(OK, TRUE)}),
     Route("discovery_worlds", "GET", "/discovery/worlds", "None", TRUE,
           {Answer(PRECONDITION_FAILED, FALSE), Answer(INTERNAL_SERVER_ERROR, TRUE), Answer(OK, TRUE)})}

\* The router: the route a method and a path select.
route(method, path) == CHOOSE r \in Routes : r.method = method /\ r.path = path

\* What a request body or query string can be for an extractor.
Payloads(extractor) ==
    IF extractor = "Json" THEN {"json", "no content type", "syntax", "data"}
    ELSE IF extractor = "Query" THEN {"query", "bad query"}
    ELSE {"none"}

\* The status an extractor turns a request away with, 0 if it does not.
rejection(extractor, payload) ==
    IF extractor = "Json"
    THEN IF payload = "no content type" THEN UNSUPPORTED_MEDIA_TYPE
         ELSE IF payload = "syntax" THEN BAD_REQUEST
         ELSE IF payload = "data" THEN UNPROCESSABLE_ENTITY
         ELSE 0
    ELSE IF extractor = "Query" /\ payload = "bad query" THEN BAD_REQUEST
    ELSE 0

\* The Authorization headers of a request, in the order they were sent.
Authorizations ==
    {<<>>,
     <<BearerPrefix \o AdminToken>>,
     <<BearerPrefix \o LongerToken>>,
     <<BearerPrefix \o <<116, 111>>>>,
     <<BearerPrefix \o <<84, 111, 107>>>>,
     <<BearerPrefix \o <<32>> \o AdminToken>>,
     <<BearerPrefix \o AdminToken \o <<255>>>>,
     <<<<98>> \o Tail(BearerPrefix) \o AdminToken>>,
     <<<<66, 101, 97, 114, 101, 114>> \o AdminToken>>,
     <<<<66, 97, 115, 105, 99, 32>> \o AdminToken>>,
     <<AdminToken>>,
     <<<<66, 97, 115, 105, 99, 32>> \o AdminToken, BearerPrefix \o AdminToken>>,
     <<BearerPrefix \o AdminToken, BearerPrefix \o LongerToken>>}

Requests ==
    {[method |-> r.method, path |-> r.path, authorization |-> a, payload |-> p] :
        r \in Routes, a \in Authorizations, p \in {"json", "no content type", "syntax", "data", "query", "bad query", "none"}}

NoRequest == [route |-> "none"]
NoResponse == [status |-> 0]
Response(status, checked, touched) ==
    [status |-> status, checked |-> checked, touched |-> touched]

\* A handler with its extractors: the response to a request, `answer` being
\* what the handler's body comes to if the check lets it run.
respond(r, req, mode, answer) ==
    IF rejection(r.extractor, req.payload) # 0
    THEN Response(rejection(r.extractor, req.payload), "none", FALSE)
    ELSE IF ~r.guarded
    THEN Response(answer.status, "none", answer.touched)
    ELSE IF require_auth(req.authorization, mode).res = "Err"
    THEN Response(require_auth(req.authorization, mode).status, "Err", FALSE)
    ELSE Response(answer.status, "Ok", answer.touched)

\* `serve` with the AuthMode that Command::Admin built.
InitAdmin ==
    /\ IdleLedger
    /\ NoStrings
    /\ NoFraming
    /\ NoGame
    /\ auth \in {Disabled, BearerToken(AdminToken), BearerToken(LongerToken)}
    /\ request = NoRequest
    /\ response = NoResponse

\* A request for one of the routes arrives.
Receive ==
    /\ request = NoRequest \/ response # NoResponse
    /\ \E req \in Requests :
         /\ req.payload \in Payloads(route(req.method, req.path).extractor)
         /\ request' = req
    /\ response' = NoResponse
    /\ UNCHANGED <<ledger, codec, strings, framing, game, auth>>

\* The request in hand is for this handler and has no response yet.
Routed(handler) ==
    /\ request # NoRequest
    /\ response = NoResponse
    /\ route(request.method, request.path).handler = handler

\* GET /health
health ==
    /\ Routed("health")
    /\ \E answer \in route(request.method, request.path).answers :
         response' = respond(route(request.method, request.path), request, auth, answer)
    /\ UNCHANGED <<ledger, codec, strings, framing, game, auth, request>>

\* GET /worlds
list_worlds ==
    /\ Routed("list_worlds")
    /\ \E answer \in route(request.method, request.path).answers :
         response' = respond(route(request.method, request.path), request, auth, answer)
    /\ UNCHANGED <<ledger, codec, strings, framing, game, auth, request>>

\* POST /worlds
create_world ==
    /\ Routed("create_world")
    /\ \E answer \in route(request.method, request.path).answers :
         response' = respond(route(request.method, request.path), request, auth, answer)
    /\ UNCHANGED <<ledger, codec, strings, framing, game, auth, request>>

\* GET /worlds/:world_id/manifest
get_manifest ==
    /\ Routed("get_manifest")
    /\ \E answer \in route(request.method, request.path).answers :
         response' = respond(route(request.method, request.path), request, auth, answer)
    /\ UNCHANGED <<ledger, codec, strings, framing, game, auth, request>>

\* POST /worlds/:world_id/publish-result
publish_result ==
    /\ Routed("publish_result")
    /\ \E answer \in route(request.method, request.path).answers :
         response' = respond(route(request.method, request.path), request, auth, answer)
    /\ UNCHANGED <<ledger, codec, strings, framing, game, auth, request>>

\* GET /assistant/status
assistant_status ==
    /\ Routed("assistant_status")
    /\ \E answer \in route(request.method, request.path).answers :
         response' = respond(route(request.method, request.path), request, auth, answer)
    /\ UNCHANGED <<ledger, codec, strings, framing, game, auth, request>>

\* GET /assistant/config
get_assistant_config ==
    /\ Routed("get_assistant_config")
    /\ \E answer \in route(request.method, request.path).answers :
         response' = respond(route(request.method, request.path), request, auth, answer)
    /\ UNCHANGED <<ledger, codec, strings, framing, game, auth, request>>

\* POST /assistant/config
set_assistant_config ==
    /\ Routed("set_assistant_config")
    /\ \E answer \in route(request.method, request.path).answers :
         response' = respond(route(request.method, request.path), request, auth, answer)
    /\ UNCHANGED <<ledger, codec, strings, framing, game, auth, request>>

\* POST /assistant/provider
set_provider ==
    /\ Routed("set_provider")
    /\ \E answer \in route(request.method, request.path).answers :
         response' = respond(route(request.method, request.path), request, auth, answer)
    /\ UNCHANGED <<ledger, codec, strings, framing, game, auth, request>>

\* POST /assistant/chat
assistant_chat ==
    /\ Routed("assistant_chat")
    /\ \E answer \in route(request.method, request.path).answers :
         response' = respond(route(request.method, request.path), request, auth, answer)
    /\ UNCHANGED <<ledger, codec, strings, framing, game, auth, request>>

\* GET /avatar
get_avatar ==
    /\ Routed("get_avatar")
    /\ \E answer \in route(request.method, request.path).answers :
         response' = respond(route(request.method, request.path), request, auth, answer)
    /\ UNCHANGED <<ledger, codec, strings, framing, game, auth, request>>

\* POST /avatar/generate
generate_avatar ==
    /\ Routed("generate_avatar")
    /\ \E answer \in route(request.method, request.path).answers :
         response' = respond(route(request.method, request.path), request, auth, answer)
    /\ UNCHANGED <<ledger, codec, strings, framing, game, auth, request>>

\* GET /avatar/mesh
get_avatar_mesh ==
    /\ Routed("get_avatar_mesh")
    /\ \E answer \in route(request.method, request.path).answers :
         response' = respond(route(request.method, request.path), request, auth, answer)
    /\ UNCHANGED <<ledger, codec, strings, framing, game, auth, request>>

\* POST /avatar/mesh/generate
generate_avatar_mesh ==
    /\ Routed("generate_avatar_mesh")
    /\ \E answer \in route(request.method, request.path).answers :
         response' = respond(route(request.method, request.path), request, auth, answer)
    /\ UNCHANGED <<ledger, codec, strings, framing, game, auth, request>>

\* POST /world/plan
generate_world_plan ==
    /\ Routed("generate_world_plan")
    /\ \E answer \in route(request.method, request.path).answers :
         response' = respond(route(request.method, request.path), request, auth, answer)
    /\ UNCHANGED <<ledger, codec, strings, framing, game, auth, request>>

\* GET /discovery/worlds
discovery_worlds ==
    /\ Routed("discovery_worlds")
    /\ \E answer \in route(request.method, request.path).answers :
         response' = respond(route(request.method, request.path), request, auth, answer)
    /\ UNCHANGED <<ledger, codec, strings, framing, game, auth, request>>

NextAdmin ==
    \/ Receive
    \/ health
    \/ list_worlds
    \/ create_world
    \/ get_manifest
    \/ publish_result
    \/ assistant_status
    \/ get_assistant_config
    \/ set_assistant_config
    \/ set_provider
    \/ assistant_chat
    \/ get_avatar
    \/ generate_avatar
    \/ get_avatar_mesh
    \/ generate_avatar_mesh
    \/ generate_world_plan
    \/ discovery_worlds

SpecAdmin == InitAdmin /\ [][NextAdmin]_vars

\* The Authorization header of the request in hand, by its first value:
\* none at all, bytes that are no text, text that does not begin with
\* "Bearer ", "Bearer " and a token other than the configured one, or
\* "Bearer " and the configured token.
HeaderMissing == request.authorization = <<>>
HeaderNonText ==
    /\ ~HeaderMissing
    /\ \E i \in 1..Len(request.authorization[1]) :
         /\ request.authorization[1][i] # 9
         /\ request.authorization[1][i] \notin 32..126
HeaderNonBearer ==
    /\ ~HeaderMissing
    /\ ~HeaderNonText
    /\ \/ Len(request.authorization[1]) < Len(BearerPrefix)
       \/ \E i \in 1..Len(BearerPrefix) : request.authorization[1][i] # BearerPrefix[i]
HeaderExact ==
    /\ ~HeaderMissing
    /\ request.authorization[1] = BearerPrefix \o auth.expected
HeaderWrongToken ==
    ~(HeaderMissing \/ HeaderNonText \/ HeaderNonBearer \/ HeaderExact)

\* A response has been given on a route other than /health.
AnsweredBehindAuth ==
    /\ response # NoResponse
    /\ request.path # "/health"

\* The extractors of the handler accept the request's body and query string.
Extracted == rejection(route(request.method, request.path).extractor, request.payload) = 0

=============================================================================
